---------------------------- MODULE Spec2Model ----------------------------
(***************************************************************************)
(* A model of msi_v2_airtable_replace.py: the price parser, the natural    *)
(* key, the batched store calls, sync_category and run.                    *)
(*                                                                         *)
(* Python strings are sequences of one-character atoms, so that strip,     *)
(* replace, regular-expression search and number formatting are computed   *)
(* the way the code computes them.  The characters that are not ASCII are  *)
(* the atoms "euro" (U+20AC), "nbsp" (U+00A0), "nnbsp" (U+202F) and "thin" *)
(* (U+2009).                                                               *)
(***************************************************************************)
EXTENDS Integers, Sequences, FiniteSets, TLC

VARIABLES
    pc,             \* position of the program (or of the function under check)
    label,          \* price parser: the raw text handed to the parser
    cleaned,        \* price parser: clean_price_string(label)
    value,          \* price parser: parse_price_to_number(label)
    fields_a,       \* unique_key: a first field set
    fields_b,       \* unique_key: a second field set
    key_a,          \* unique_key(fields_a)
    key_b,          \* unique_key(fields_b)
    store,          \* the remote table: a list of [id, fields], in list order
    nextId,         \* the record id the store gives to the next created record
    scraped_rows,   \* sync_category: its first argument
    category_label, \* sync_category: its second argument
    allowed,        \* sync_category: the result of airtable_existing_fields()
    listed,         \* sync_category: the result of airtable_list_all()
    to_create,      \* sync_category: the payloads to create
    to_update,      \* sync_category: the [id, fields] pairs to update
    to_delete_ids,  \* sync_category: the record ids to delete
    bi,             \* airtable_batch_*: the loop index i
    calls,          \* every HTTP call made to the store so far: [op, items, ok]
    mode,           \* run: its argument
    configured,     \* run: AIRTABLE_TOKEN, AIRTABLE_BASE and the table are set
    site,           \* the list pages of the site, each a list of detail pages
    idx,            \* run: the number of the list page being read
    seen,           \* run: the detail urls met so far
    new_links,      \* run: the detail pages of the list page still to parse
    row,            \* run: what parse_detail returned for the page in hand
    all_rows,       \* run: the records built so far
    skipped,        \* run: the titles skipped as sold
    cache,          \* KURZBESCHREIBUNG_CACHE
    pending,        \* run: the sync_category calls still to make
    csv,            \* the rows written to msi_kauf.csv and msi_miete.csv
    openai,         \* OPENAI_API_KEY is set
    log,            \* the [WARN], [FEHLER], [CACHE] and [GPT] lines printed so far
    gpt_output,     \* normalize_kurzbeschreibung: its first argument
    scraped_data,   \* normalize_kurzbeschreibung: its second argument
    kurzbeschreibung, \* normalize_kurzbeschreibung: what it returned
    main_soup,      \* get_description: the main document
    frames,         \* get_description: FRAME_HTMLS[detail_url]
    sw_links,       \* get_description: what the linked expose pages answer
    tried,          \* get_description: the documents read so far
    description     \* what extract_description or get_description returned

priceVars == <<label, cleaned, value>>
keyVars == <<fields_a, fields_b, key_a, key_b>>
storeVars == <<store, nextId>>
syncArgs == <<scraped_rows, category_label>>
planVars == <<allowed, listed, to_create, to_update, to_delete_ids>>
syncVars == <<storeVars, syncArgs, planVars, bi, calls>>
runVars ==
    <<mode, configured, site, idx, seen, new_links, row, all_rows, skipped, cache, pending, csv,
      openai, log>>
descVars == <<main_soup, frames, sw_links, tried, description>>
textVars == <<gpt_output, scraped_data, kurzbeschreibung, descVars>>
vars == <<pc, priceVars, keyVars, textVars, syncVars, runVars>>

(***************************************************************************)
(* Characters and strings                                                  *)
(***************************************************************************)
Digits == {"0", "1", "2", "3", "4", "5", "6", "7", "8", "9"}

Lower == {"a", "b", "c", "d", "e", "f", "g", "h", "i", "j", "k", "l", "m",
          "n", "o", "p", "q", "r", "s", "t", "u", "v", "w", "x", "y", "z"}

Upper == {"A", "B", "C", "D", "E", "F", "G", "H", "I", "J", "K", "L", "M",
          "N", "O", "P", "Q", "R", "S", "T", "U", "V", "W", "X", "Y", "Z"}

\* \w of Python's re on str: letters, digits and the underscore
IsWord(c) == c \in Digits \cup Lower \cup Upper \cup {"_"}

\* \s of Python's re on str, and the characters str.strip() removes
IsSpace(c) == c \in {" ", "\n", "\t", "nbsp", "nnbsp", "thin"}

DigitVal(c) ==
    CASE c = "0" -> 0 [] c = "1" -> 1 [] c = "2" -> 2 [] c = "3" -> 3
      [] c = "4" -> 4 [] c = "5" -> 5 [] c = "6" -> 6 [] c = "7" -> 7
      [] c = "8" -> 8 [] c = "9" -> 9

DigitChar(d) ==
    CASE d = 0 -> "0" [] d = 1 -> "1" [] d = 2 -> "2" [] d = 3 -> "3"
      [] d = 4 -> "4" [] d = 5 -> "5" [] d = 6 -> "6" [] d = 7 -> "7"
      [] d = 8 -> "8" [] d = 9 -> "9"

Min(a, b) == IF a <= b THEN a ELSE b

\* s[i:] of Python with a 1-based i
Drop(s, i) == SubSeq(s, i, Len(s))

\* str.strip()
RECURSIVE LStrip(_)
LStrip(s) == IF s # <<>> /\ IsSpace(Head(s)) THEN LStrip(Tail(s)) ELSE s

RECURSIVE RStrip(_)
RStrip(s) ==
    IF s # <<>> /\ IsSpace(s[Len(s)]) THEN RStrip(SubSeq(s, 1, Len(s) - 1)) ELSE s

Strip(s) == RStrip(LStrip(s))

\* str.replace(old, new) for a one-character old; new is a string
RECURSIVE Replace(_, _, _)
Replace(s, old, new) ==
    IF s = <<>> THEN <<>>
    ELSE (IF Head(s) = old THEN new ELSE <<Head(s)>>) \o Replace(Tail(s), old, new)

Contains(s, c) == \E i \in 1..Len(s) : s[i] = c

\* the number of times the character c occurs in s
RECURSIVE Count(_, _)
Count(s, c) ==
    IF s = <<>> THEN 0 ELSE (IF Head(s) = c THEN 1 ELSE 0) + Count(Tail(s), c)

\* the position of the last c in s (0: none): str.rsplit(c, 1)
RECURSIVE LastIndex(_, _)
LastIndex(s, c) ==
    IF s = <<>> THEN 0
    ELSE IF s[Len(s)] = c THEN Len(s)
    ELSE LastIndex(SubSeq(s, 1, Len(s) - 1), c)

AllDigits(s) == \A i \in 1..Len(s) : s[i] \in Digits

LowerSeq == <<"a", "b", "c", "d", "e", "f", "g", "h", "i", "j", "k", "l", "m",
              "n", "o", "p", "q", "r", "s", "t", "u", "v", "w", "x", "y", "z">>

UpperSeq == <<"A", "B", "C", "D", "E", "F", "G", "H", "I", "J", "K", "L", "M",
              "N", "O", "P", "Q", "R", "S", "T", "U", "V", "W", "X", "Y", "Z">>

LowerChar(c) ==
    IF c \in Upper THEN LowerSeq[CHOOSE i \in 1..Len(UpperSeq) : UpperSeq[i] = c] ELSE c

\* str.lower()
LowerStr(s) == [i \in 1..Len(s) |-> LowerChar(s[i])]

\* s[i - 1:].startswith(w), for a 1-based i
StartsAt(s, i, w) == i + Len(w) - 1 <= Len(s) /\ SubSeq(s, i, i + Len(w) - 1) = w

\* w in s
HasSubstring(s, w) == \E i \in 1..(Len(s) + 1) : StartsAt(s, i, w)

(***************************************************************************)
(* Numbers.  A float is [m, e]: the decimal m / 10^e, kept normal (e = 0   *)
(* or m not a multiple of 10), so that equal values are equal records.     *)
(* NoNumber is what float() raising ValueError leaves.                     *)
(***************************************************************************)
RECURSIVE Pow10(_)
Pow10(e) == IF e = 0 THEN 1 ELSE 10 * Pow10(e - 1)

RECURSIVE NormalNum(_, _)
NormalNum(m, e) ==
    IF e > 0 /\ m % 10 = 0 THEN NormalNum(m \div 10, e - 1) ELSE [m |-> m, e |-> e]

Float(n) == [m |-> n, e |-> 0]

NoNumber == [m |-> -1, e |-> 0]

\* float("nan") and float("inf")
NaN == [m |-> -3, e |-> 0]

Infinity == [m |-> -4, e |-> 0]

IsFinite(v) == v.m >= 0

RECURSIVE DigitsValue(_)
DigitsValue(s) ==
    IF s = <<>> THEN 0
    ELSE 10 * DigitsValue(SubSeq(s, 1, Len(s) - 1)) + DigitVal(s[Len(s)])

\* float(s) for a string of decimal digits with at most one period
ParseFloat(s) ==
    LET t    == Strip(s)
        dot  == LastIndex(t, ".")
        ip   == IF dot = 0 THEN t ELSE SubSeq(t, 1, dot - 1)
        fp   == IF dot = 0 THEN <<>> ELSE Drop(t, dot + 1)
    IN  IF /\ AllDigits(ip)
           /\ AllDigits(fp)
           /\ Len(ip) + Len(fp) > 0
        THEN NormalNum(DigitsValue(ip \o fp), Len(fp))
        ELSE NoNumber

\* the decimal digits of a natural number
RECURSIVE NatStr(_)
NatStr(n) == IF n < 10 THEN <<DigitChar(n)>> ELSE NatStr(n \div 10) \o <<DigitChar(n % 10)>>

\* round(v) to an integer the way format(v, ".0f") does: half to even
RoundHalfEven(v) ==
    LET p == Pow10(v.e)
        q == v.m \div p
        r == v.m % p
    IN  IF 2 * r > p THEN q + 1
        ELSE IF 2 * r < p THEN q
        ELSE IF q % 2 = 0 THEN q ELSE q + 1

\* the digits of n in groups of three, separated by sep: format(n, ",")
RECURSIVE Grouped(_, _)
Grouped(n, sep) ==
    IF n < 1000 THEN NatStr(n)
    ELSE LET low == NatStr(n % 1000)
             pad == IF Len(low) = 1 THEN <<"0", "0">>
                    ELSE IF Len(low) = 2 THEN <<"0">> ELSE <<>>
         IN  Grouped(n \div 1000, sep) \o <<sep>> \o pad \o low

\* f"{val:,.0f} <euro>".replace(",", ".")
FormatEuro(v) ==
    (IF v = NaN THEN <<"n", "a", "n">>
     ELSE IF v = Infinity THEN <<"i", "n", "f">>
     ELSE Grouped(RoundHalfEven(v), ".")) \o <<" ", "euro">>


(***************************************************************************)
(* Regular expressions of the price parser                                 *)
(***************************************************************************)
THIN_SPACES == {"nbsp", "nnbsp", "thin"}

\* [. nbsp nnbsp thin]
GroupSep == {"."} \cup THIN_SPACES

\* A match is the half-open range [s, e) of 1-based positions; NoMatch is None.
NoMatch == [s |-> 0, e |-> 0]

Group0(s, m) == SubSeq(s, m.s, m.e - 1)

\* \b at position p: between s[p-1] and s[p]
WordBoundary(s, p) ==
    (p > 1 /\ IsWord(s[p - 1])) # (p <= Len(s) /\ IsWord(s[p]))

DigitsAt(s, p, n) == p + n - 1 <= Len(s) /\ \A k \in 0..(n - 1) : s[p + k] \in Digits

\* [. nbsp nnbsp thin]\d{3} at p
GroupAt(s, p) == p + 3 <= Len(s) /\ s[p] \in GroupSep /\ DigitsAt(s, p + 1, 3)

RECURSIVE MaxGroups(_, _)
MaxGroups(s, p) == IF GroupAt(s, p) THEN 1 + MaxGroups(s, p + 4) ELSE 0

\* ,\d{2} at p
DecAt(s, p) == p + 2 <= Len(s) /\ s[p] = "," /\ DigitsAt(s, p + 1, 2)

\* the most digits \d{1,3} takes at p
MaxDigits(s, p) == IF DigitsAt(s, p, 3) THEN 3 ELSE IF DigitsAt(s, p, 2) THEN 2
                   ELSE IF DigitsAt(s, p, 1) THEN 1 ELSE 0

EurEnd(i, c) == i + c.nd + 4 * c.ng + 3 * c.dec

\* RE_EUR_NUMBER = \b\d{1,3}(?:[. nbsp nnbsp thin]\d{3})*(?:,\d{2})?\b
\* Every way the pattern matches from position i: nd digits, ng groups, dec
\* decimals, then a word boundary.
EurNumberCands(s, i) ==
    IF ~WordBoundary(s, i) THEN {}
    ELSE { c \in [nd : 1..3, ng : 0..(Len(s) \div 4), dec : {0, 1}] :
             /\ DigitsAt(s, i, c.nd)
             /\ c.ng <= MaxGroups(s, i + c.nd)
             /\ (c.dec = 1 => DecAt(s, i + c.nd + 4 * c.ng))
             /\ WordBoundary(s, EurEnd(i, c)) }

\* The backtracking order of the greedy quantifiers: most digits first, then
\* most groups, then the decimals taken before the decimals left out.
EurRank(c) == 1000 * c.nd + 2 * c.ng + c.dec

EurNumberAt(s, i) ==
    LET cands == EurNumberCands(s, i)
        best  == CHOOSE c \in cands : \A d \in cands : EurRank(d) <= EurRank(c)
    IN  [s |-> i, e |-> EurEnd(i, best)]

\* RE_EUR_NUMBER.search(s): the leftmost match
RE_EUR_NUMBER_search(s) ==
    LET starts == {i \in 1..Len(s) : EurNumberCands(s, i) # {}}
    IN  IF starts = {} THEN NoMatch
        ELSE EurNumberAt(s, CHOOSE i \in starts : \A j \in starts : i <= j)

\* the whitespace \s* takes from p on
RECURSIVE SpanSpaces(_, _)
SpanSpaces(s, p) == IF p <= Len(s) /\ IsSpace(s[p]) THEN 1 + SpanSpaces(s, p + 1) ELSE 0

\* RE_EUR_ANY = \b\d{1,3}(?:[. nbsp nnbsp thin]\d{3})*(?:,\d{2})?\s*[<euro>EUR]?
\* Nothing follows the optional parts, so the greedy choice is the match.
EurAnyAt(s, i) ==
    LET nd == MaxDigits(s, i)
        q  == i + nd + 4 * MaxGroups(s, i + nd)
        r  == IF DecAt(s, q) THEN q + 3 ELSE q
        t  == r + SpanSpaces(s, r)
        e  == IF t <= Len(s) /\ s[t] \in {"euro", "E", "U", "R"} THEN t + 1 ELSE t
    IN  [s |-> i, e |-> e]

EurAnyStarts(s, i) == WordBoundary(s, i) /\ DigitsAt(s, i, 1)

\* [e.group(0) for e in RE_EUR_ANY.finditer(s)], scanning from position i
RECURSIVE RE_EUR_ANY_finditer(_, _)
RE_EUR_ANY_finditer(s, i) ==
    IF i > Len(s) THEN <<>>
    ELSE IF EurAnyStarts(s, i)
         THEN LET m == EurAnyAt(s, i)
              IN  <<Group0(s, m)>> \o RE_EUR_ANY_finditer(s, m.e)
         ELSE RE_EUR_ANY_finditer(s, i + 1)

(***************************************************************************)
(* PREIS: _normalize_numstring, clean_price_string, parse_price_to_number  *)
(***************************************************************************)
RemoveAll(s, cs) == SelectSeq(s, LAMBDA c : c \notin cs)

_normalize_numstring(s0) ==
    IF s0 = <<>> THEN <<>>
    ELSE LET s == RemoveAll(Strip(s0), THIN_SPACES)
         IN  IF Contains(s, ",") /\ Contains(s, ".")
             THEN Replace(RemoveAll(s, {"."}), ",", <<".">>)
             ELSE IF Contains(s, ",")
             THEN Replace(s, ",", <<".">>)
             ELSE IF Contains(s, ".")
             THEN LET last == Drop(s, LastIndex(s, ".") + 1)
                  IN  IF last # <<>> /\ AllDigits(last) /\ Len(last) \in {3, 6}
                      THEN RemoveAll(s, {"."})
                      ELSE s
             ELSE s

\* float(num) of the code's try blocks: NoNumber stands for the ValueError
FloatOrError(s) == IF Count(s, ".") <= 1 THEN ParseFloat(s) ELSE NoNumber

clean_price_string(raw) ==
    IF raw = <<>> THEN <<>>
    ELSE LET m == RE_EUR_NUMBER_search(raw)
         IN  IF m = NoMatch THEN <<>>
             ELSE LET val == FloatOrError(_normalize_numstring(Group0(raw, m)))
                  IN  IF val = NoNumber THEN <<>> ELSE FormatEuro(val)

\* None is NoNumber
parse_price_to_number(lbl) ==
    IF lbl = <<>> THEN NoNumber
    ELSE LET m == RE_EUR_NUMBER_search(lbl)
         IN  IF m = NoMatch THEN NoNumber
             ELSE FloatOrError(_normalize_numstring(Group0(lbl, m)))


(***************************************************************************)
(* Python values and dicts.  A value is None, a str or a float; a dict is  *)
(* a function from the field names it holds to values.                     *)
(***************************************************************************)
PyNone == [t |-> "None", s |-> <<>>, n |-> NoNumber]

PyStr(x) == [t |-> "str", s |-> x, n |-> NoNumber]

PyNum(v) == [t |-> "num", s |-> <<>>, n |-> v]

\* the record schema of make_record, in the order json.dumps(sort_keys=True) writes it
FieldOrder == <<"Beschreibung", "Bild", "Kategorie", "Kurzbeschreibung", "Objektnummer",
                "Preis", "Standort", "Titel", "Webseite">>

FieldNames == {FieldOrder[i] : i \in 1..Len(FieldOrder)}

EmptyDict == [k \in {} |-> PyNone]

\* d.get(k)
Get(d, k) == IF k \in DOMAIN d THEN d[k] ELSE PyNone

\* (d.get(k) or ""): a str field's text, "" for None and for a missing field
GetOrEmpty(d, k) == IF Get(d, k).t = "str" THEN Get(d, k).s ELSE <<>>

\* d without the field k: d.pop(k, None)
Without(d, k) == [f \in DOMAIN d \ {k} |-> d[f]]

\* {k: v for k, v in d.items() if k in ks}
Restrict(d, ks) == [f \in DOMAIN d \cap ks |-> d[f]]

Kaufen == <<"K", "a", "u", "f", "e", "n">>

Mieten == <<"M", "i", "e", "t", "e", "n">>

(***************************************************************************)
(* unique_key                                                              *)
(***************************************************************************)
\* the text json.dumps writes for one value
DumpValue(v) ==
    IF v.t = "None" THEN <<"null">>
    ELSE IF v.t = "str" THEN <<"\"">> \o v.s \o <<"\"">>
    ELSE NatStr(v.n.m) \o <<"e-">> \o NatStr(v.n.e)

\* json.dumps(fields, sort_keys=True), field by field from position i on
RECURSIVE DumpFrom(_, _)
DumpFrom(d, i) ==
    IF i > Len(FieldOrder) THEN <<>>
    ELSE (IF FieldOrder[i] \in DOMAIN d
          THEN <<FieldOrder[i], ":">> \o DumpValue(d[FieldOrder[i]]) \o <<";">>
          ELSE <<>>) \o DumpFrom(d, i + 1)

\* str(hash(text)): the text stands for its own hash, so two field sets get
\* the same hash only when json.dumps writes them the same
HashStr(text) == <<"#">> \o text

PrefixObj == <<"o", "b", "j", ":">>
PrefixUrl == <<"u", "r", "l", ":">>
PrefixHash == <<"h", "a", "s", "h", ":">>

\* unique_key with the "obj:" / "url:" prefixes left out
unique_key_unprefixed(fields) ==
    LET obj == Strip(GetOrEmpty(fields, "Objektnummer"))
        url == Strip(GetOrEmpty(fields, "Webseite"))
    IN  IF obj # <<>> THEN obj
        ELSE IF url # <<>> THEN url
        ELSE PrefixHash \o HashStr(DumpFrom(fields, 1))

unique_key(fields) ==
    LET obj == Strip(GetOrEmpty(fields, "Objektnummer"))
        url == Strip(GetOrEmpty(fields, "Webseite"))
    IN  IF obj # <<>> THEN PrefixObj \o obj
        ELSE IF url # <<>> THEN PrefixUrl \o url
        ELSE PrefixHash \o HashStr(DumpFrom(fields, 1))

(***************************************************************************)
(* PREIS-EXTRAKTION.  A detail page is a record: jsonld, the dict nodes of *)
(* its JSON-LD scripts in document order; dts, its <dt> elements with the  *)
(* text of the <dd> that follows (NoDD: none); trs, its table rows as      *)
(* lists of cell texts; lis, the texts of its <li> elements; page_text.    *)
(***************************************************************************)
PyInt(n) == [t |-> "int", s |-> <<>>, n |-> Float(n)]

PyDict(d) == [t |-> "dict", s |-> <<>>, n |-> NoNumber, d |-> d]

\* bool(v)
Truthy(v) ==
    CASE v.t = "None" -> FALSE
      [] v.t = "str"  -> v.s # <<>>
      [] v.t = "dict" -> DOMAIN v.d # {}
      [] OTHER        -> v.n # Float(0)

\* the digits of the fraction m / 10^e
FractionStr(m, e) ==
    LET f == NatStr(m % Pow10(e))
    IN  [i \in 1..(e - Len(f)) |-> "0"] \o f

\* str(v) of a str, an int, a float or None
StrOf(v) ==
    CASE v.t = "str"  -> v.s
      [] v.t = "int"  -> NatStr(v.n.m)
      [] v.t = "None" -> <<"N", "o", "n", "e">>
      [] OTHER        ->
            IF v.n = NaN THEN <<"n", "a", "n">>
            ELSE IF v.n = Infinity THEN <<"i", "n", "f">>
            ELSE IF v.n.e = 0 THEN NatStr(v.n.m) \o <<".", "0">>
            ELSE NatStr(v.n.m \div Pow10(v.n.e)) \o <<".">> \o FractionStr(v.n.m, v.n.e)

\* float(s): decimal digits with at most one period, or nan, inf, infinity in
\* any case, each with blanks around it; ValueError (NoNumber) for the rest.
\* Signs, exponents and underscores are not in the texts drawn here.
FloatOfStr(s) ==
    LET t == LowerStr(Strip(s))
    IN  IF t = <<"n", "a", "n">> THEN NaN
        ELSE IF t \in {<<"i", "n", "f">>, <<"i", "n", "f", "i", "n", "i", "t", "y">>} THEN Infinity
        ELSE FloatOrError(t)

\* float(str(price).replace(".", "").replace(",", "."))
JsonldFloat(price) == FloatOfStr(Replace(Replace(StrOf(price), ".", <<>>), ",", <<".">>))

Offer == <<"O", "f", "f", "e", "r">>

AggregateOffer == <<"A", "g", "g", "r", "e", "g", "a", "t", "e">> \o Offer

\* the offer of a node: the node itself, its "offers", or None
OfferOf(node) ==
    IF Get(node, "@type") \in {PyStr(Offer), PyStr(AggregateOffer)} THEN PyDict(node)
    ELSE IF "offers" \in DOMAIN node THEN node["offers"]
    ELSE PyNone

\* offer.get("price") or offer.get("lowPrice")
OfferPrice(offer) ==
    IF Truthy(Get(offer.d, "price")) THEN Get(offer.d, "price") ELSE Get(offer.d, "lowPrice")

\* for k in ("price", "lowPrice", "highPrice"): the first key that is in the
\* node, truthy and a float
RECURSIVE NodePrice(_, _)
NodePrice(node, ks) ==
    IF ks = <<>> THEN NoNumber
    ELSE IF /\ Head(ks) \in DOMAIN node
            /\ Truthy(node[Head(ks)])
            /\ JsonldFloat(node[Head(ks)]) # NoNumber
         THEN JsonldFloat(node[Head(ks)])
         ELSE NodePrice(node, Tail(ks))

\* the value one node gives (NoNumber: none)
NodeValue(node) ==
    LET offer == OfferOf(node)
    IN  IF /\ offer.t = "dict"
           /\ Truthy(OfferPrice(offer))
           /\ JsonldFloat(OfferPrice(offer)) # NoNumber
        THEN JsonldFloat(OfferPrice(offer))
        ELSE NodePrice(node, <<"price", "lowPrice", "highPrice">>)

RECURSIVE extract_price_from_jsonld(_)
extract_price_from_jsonld(nodes) ==
    IF nodes = <<>> THEN <<>>
    ELSE IF NodeValue(Head(nodes)) # NoNumber THEN FormatEuro(NodeValue(Head(nodes)))
    ELSE extract_price_from_jsonld(Tail(nodes))

\* the labels of a price row, in the order the code lists them
PriceLabels ==
    << <<"k", "a", "u", "f", "p", "r", "e", "i", "s">>,
       <<"k", "a", "l", "t", "m", "i", "e", "t", "e">>,
       <<"w", "a", "r", "m", "m", "i", "e", "t", "e">>,
       <<"n", "e", "t", "t", "o", "k", "a", "l", "t", "m", "i", "e", "t", "e">>,
       <<"m", "i", "e", "t", "e">>,
       <<"p", "r", "e", "i", "s">> >>

\* any(k in label for k in (...))
IsPriceLabel(lbl) == \E i \in 1..Len(PriceLabels) : HasSubstring(lbl, PriceLabels[i])

NoDD == <<"no dd">>

\* the first <dt> with a price label whose <dd> cleans to a price
RECURSIVE PriceOfDts(_)
PriceOfDts(dts) ==
    IF dts = <<>> THEN <<>>
    ELSE LET got == IF IsPriceLabel(LowerStr(Head(dts).label)) /\ Head(dts).dd # NoDD
                    THEN clean_price_string(Head(dts).dd)
                    ELSE <<>>
         IN  IF got # <<>> THEN got ELSE PriceOfDts(Tail(dts))

\* the first table row of two cells or more with a price label whose second
\* cell cleans to a price
RECURSIVE PriceOfTrs(_)
PriceOfTrs(trs) ==
    IF trs = <<>> THEN <<>>
    ELSE LET got == IF Len(Head(trs)) >= 2 /\ IsPriceLabel(LowerStr(Head(trs)[1]))
                    THEN clean_price_string(Head(trs)[2])
                    ELSE <<>>
         IN  IF got # <<>> THEN got ELSE PriceOfTrs(Tail(trs))

\* [0-9. nbsp nnbsp thin ,]
NumChars == Digits \cup GroupSep \cup {","}

RECURSIVE NumRun(_, _)
NumRun(s, p) == IF p <= Len(s) /\ s[p] \in NumChars THEN 1 + NumRun(s, p + 1) ELSE 0

\* \s*:?\s*([0-9. nbsp nnbsp thin ,]+) from p on: the ways to split the text
\* between the label and the number into blanks, a colon and blanks
PriceLineSplits(s, p) ==
    {sp \in (0..SpanSpaces(s, p)) \X {0, 1} \X (0..Len(s)) :
        /\ sp[2] = 1 => (p + sp[1] <= Len(s) /\ s[p + sp[1]] = ":")
        /\ sp[3] <= SpanSpaces(s, p + sp[1] + sp[2])
        /\ NumRun(s, p + sp[1] + sp[2] + sp[3]) >= 1}

\* the split the greedy quantifiers reach first: most blanks, then the colon,
\* then most blanks again
SplitRank(s, sp) == (2 * sp[1] + sp[2]) * (Len(s) + 1) + sp[3]

\* group 2 of RE_PRICE_LINE when a label ends before p
PriceLineNumber(s, p) ==
    IF PriceLineSplits(s, p) = {} THEN NoMatch
    ELSE LET sp == CHOOSE x \in PriceLineSplits(s, p) :
                       \A y \in PriceLineSplits(s, p) : SplitRank(s, y) <= SplitRank(s, x)
             b  == p + sp[1] + sp[2] + sp[3]
         IN  [s |-> b, e |-> b + NumRun(s, b)]

\* the label of RE_PRICE_LINE that starts at i (re.I), <<>> when none does
LabelAt(s, i) ==
    LET hits == {k \in 1..Len(PriceLabels) : StartsAt(LowerStr(s), i, PriceLabels[k])}
    IN  IF hits = {} THEN <<>> ELSE PriceLabels[CHOOSE k \in hits : TRUE]

\* RE_PRICE_LINE.search(s) from i on: the span of group 2
RECURSIVE RE_PRICE_LINE_search(_, _)
RE_PRICE_LINE_search(s, i) ==
    IF i > Len(s) THEN NoMatch
    ELSE IF /\ LabelAt(s, i) # <<>>
            /\ PriceLineNumber(s, i + Len(LabelAt(s, i))) # NoMatch
         THEN PriceLineNumber(s, i + Len(LabelAt(s, i)))
         ELSE RE_PRICE_LINE_search(s, i + 1)

\* the first <li> that RE_PRICE_LINE matches decides, whatever its number
\* cleans to
RECURSIVE PriceOfLis(_)
PriceOfLis(lis) ==
    IF lis = <<>> THEN <<>>
    ELSE LET m == RE_PRICE_LINE_search(Head(lis), 1)
         IN  IF m # NoMatch
             THEN clean_price_string(Group0(Head(lis), m) \o <<" ", "euro">>)
             ELSE PriceOfLis(Tail(lis))

extract_price_dom(page) ==
    LET dt == PriceOfDts(page.dts)
        tr == PriceOfTrs(page.trs)
    IN  IF dt # <<>> THEN dt
        ELSE IF tr # <<>> THEN tr
        ELSE PriceOfLis(page.lis)

\* to_float of extract_price; extract_price_strict_top skips a token without
\* a number
TokenValue(tok) ==
    LET mm == RE_EUR_NUMBER_search(tok)
    IN  IF mm = NoMatch THEN NoNumber
        ELSE FloatOrError(_normalize_numstring(Group0(tok, mm)))

\* a >= b for two floats that are numbers
NumGE(a, b) == a.m * Pow10(b.e) >= b.m * Pow10(a.e)

\* the least plausible price of the top-of-page strategy
MinTopPrice == 10000

extract_price_strict_top(page_text) ==
    LET euros == RE_EUR_ANY_finditer(page_text, 1)
        euros_filtered == SelectSeq(euros, LAMBDA tok :
                              /\ TokenValue(tok) # NoNumber
                              /\ NumGE(TokenValue(tok), Float(MinTopPrice)))
    IN  IF euros_filtered # <<>> THEN clean_price_string(euros_filtered[1]) ELSE <<>>

\* to_float: 0.0 for a token without a number
ToFloat(tok) == IF TokenValue(tok) = NoNumber THEN Float(0) ELSE TokenValue(tok)

\* max(euros, key=to_float): the first of the largest
MaxToken(euros) ==
    euros[CHOOSE i \in 1..Len(euros) :
            /\ \A j \in 1..Len(euros) : NumGE(ToFloat(euros[i]), ToFloat(euros[j]))
            /\ \A j \in 1..(i - 1) : ~NumGE(ToFloat(euros[j]), ToFloat(euros[i]))]

\* the cascade in which a later strategy with a result overrides an earlier one
extract_price_last_wins(page) ==
    LET ld    == extract_price_from_jsonld(page.jsonld)
        dom   == extract_price_dom(page)
        top   == extract_price_strict_top(page.page_text)
        euros == RE_EUR_ANY_finditer(page.page_text, 1)
    IN  IF euros # <<>> THEN clean_price_string(MaxToken(euros))
        ELSE IF top # <<>> THEN top
        ELSE IF dom # <<>> THEN dom
        ELSE ld

extract_price(page) ==
    LET ld    == extract_price_from_jsonld(page.jsonld)
        dom   == extract_price_dom(page)
        top   == extract_price_strict_top(page.page_text)
        euros == RE_EUR_ANY_finditer(page.page_text, 1)
    IN  IF ld # <<>> THEN ld
        ELSE IF dom # <<>> THEN dom
        ELSE IF top # <<>> THEN top
        ELSE IF euros # <<>> THEN clean_price_string(MaxToken(euros))
        ELSE <<>>

(***************************************************************************)
(* AIRTABLE helpers                                                        *)
(***************************************************************************)
ALWAYS_ALLOWED == {"Kurzbeschreibung"}

\* a sanitize that sends the record as it is
sanitize_record_for_airtable_as_is(record, allowed_fields) == record

sanitize_record_for_airtable(record, allowed_fields) ==
    LET out == IF /\ "Preis" \in DOMAIN record
                  /\ (record["Preis"] = PyNone \/ record["Preis"] = PyStr(<<>>))
               THEN Without(record, "Preis")
               ELSE record
    IN  IF allowed_fields # {}
        THEN Restrict(out, allowed_fields \cup ALWAYS_ALLOWED)
        ELSE out

\* what airtable_existing_fields returns when the store answers: the field
\* names of the first record, no name for an empty table
SampledFields(st) == IF st # <<>> THEN DOMAIN st[1].fields ELSE {}

\* the records of one batch call: at most 10
BatchSize == 10

\* a slice that is one item too long
BatchOf_eleven(rows, i) == SubSeq(rows, i + 1, Min(i + BatchSize + 1, Len(rows)))

\* rows[i:i+10] for the loop index i
BatchOf(rows, i) == SubSeq(rows, i + 1, Min(i + BatchSize, Len(rows)))

\* The store after an accepted batch-create: each payload becomes a record
\* with a fresh id, holding the fields sent.
ApplyCreate(st, first, payloads) ==
    st \o [i \in 1..Len(payloads) |-> [id |-> first + i - 1, fields |-> payloads[i]]]

\* {**old, **changes}
Merge(old, changes) ==
    [f \in DOMAIN old \cup DOMAIN changes |->
        IF f \in DOMAIN changes THEN changes[f] ELSE old[f]]

\* the last pair of the batch that names the record id
LastPairFor(pairs, id) ==
    pairs[CHOOSE i \in 1..Len(pairs) :
            /\ pairs[i].id = id
            /\ \A j \in 1..Len(pairs) : pairs[j].id = id => j <= i]

\* The store after an accepted batch-update: the changed fields are written
\* over the record of each id.
ApplyUpdate(st, pairs) ==
    [i \in 1..Len(st) |->
        IF \E j \in 1..Len(pairs) : pairs[j].id = st[i].id
        THEN [id |-> st[i].id, fields |-> Merge(st[i].fields, LastPairFor(pairs, st[i].id).fields)]
        ELSE st[i]]

\* The store after an accepted batch-delete.
ApplyDelete(st, ids) ==
    SelectSeq(st, LAMBDA r : \A j \in 1..Len(ids) : ids[j] # r.id)

(***************************************************************************)
(* SYNC: the dicts existing and desired of sync_category.  A dict that is  *)
(* iterated is a list of [k, v] in insertion order; assigning to a key it  *)
(* holds keeps the key's place and replaces the value.                     *)
(***************************************************************************)
HasKey(d, k) == \E i \in 1..Len(d) : d[i].k = k

Lookup(d, k) == d[CHOOSE i \in 1..Len(d) : d[i].k = k].v

DictPut(d, k, v) ==
    IF HasKey(d, k)
    THEN [i \in 1..Len(d) |-> IF d[i].k = k THEN [k |-> k, v |-> v] ELSE d[i]]
    ELSE Append(d, [k |-> k, v |-> v])

InCategory(f, lbl) == Get(f, "Kategorie") = PyStr(lbl)

\* existing = {}; for rec_id, f in zip(all_ids, all_fields): ...
RECURSIVE ExistingOf(_, _)
ExistingOf(records, lbl) ==
    IF records = <<>> THEN <<>>
    ELSE LET n    == Len(records)
             rest == ExistingOf(SubSeq(records, 1, n - 1), lbl)
             r    == records[n]
         IN  IF InCategory(r.fields, lbl)
             THEN DictPut(rest, unique_key(r.fields), r)
             ELSE rest

\* a desired that keeps one entry for every row, rows of one key included
RECURSIVE DesiredOf_every_row(_, _, _)
DesiredOf_every_row(rows, lbl, allowed_fields) ==
    IF rows = <<>> THEN <<>>
    ELSE LET n    == Len(rows)
             rest == DesiredOf_every_row(SubSeq(rows, 1, n - 1), lbl, allowed_fields)
             r    == rows[n]
         IN  IF InCategory(r, lbl)
             THEN Append(rest, [k |-> unique_key(r),
                                v |-> sanitize_record_for_airtable(r, allowed_fields)])
             ELSE rest

\* desired = {}; for r in scraped_rows: ...
RECURSIVE DesiredOf(_, _, _)
DesiredOf(rows, lbl, allowed_fields) ==
    IF rows = <<>> THEN <<>>
    ELSE LET n    == Len(rows)
             rest == DesiredOf(SubSeq(rows, 1, n - 1), lbl, allowed_fields)
             r    == rows[n]
         IN  IF InCategory(r, lbl)
             THEN DictPut(rest, unique_key(r), sanitize_record_for_airtable(r, allowed_fields))
             ELSE rest

\* a diff that keeps every desired field, changed or not
Diff_every_field(fields, old) == fields

\* {fld: val for fld, val in fields.items() if old.get(fld) != val}
Diff(fields, old) == Restrict(fields, {fld \in DOMAIN fields : Get(old, fld) # fields[fld]})

\* to_create: the desired entries whose key no existing record has
ToCreate(desired, existing) ==
    LET news == SelectSeq(desired, LAMBDA e : ~HasKey(existing, e.k))
    IN  [i \in 1..Len(news) |-> news[i].v]

\* a to_update without the test `if diff:`
ToUpdate_unconditional(desired, existing) ==
    LET shared == SelectSeq(desired, LAMBDA e : HasKey(existing, e.k))
    IN  [i \in 1..Len(shared) |->
            [id     |-> Lookup(existing, shared[i].k).id,
             fields |-> Diff(shared[i].v, Lookup(existing, shared[i].k).fields)]]

\* to_update: the desired entries whose key exists and whose diff is not empty
ToUpdate(desired, existing) ==
    LET changed == SelectSeq(desired, LAMBDA e :
                       /\ HasKey(existing, e.k)
                       /\ Diff(e.v, Lookup(existing, e.k).fields) # EmptyDict)
    IN  [i \in 1..Len(changed) |->
            [id     |-> Lookup(existing, changed[i].k).id,
             fields |-> Diff(changed[i].v, Lookup(existing, changed[i].k).fields)]]

\* to_delete_ids: the existing entries whose key is not in keep
ToDelete(desired, existing) ==
    LET gone == SelectSeq(existing, LAMBDA e : ~HasKey(desired, e.k))
    IN  [i \in 1..Len(gone) |-> gone[i].v.id]

\* if to_create: ... if to_update: ... if to_delete_ids: ..., from the phase after `from`
PhaseAfter(from, creates, updates, deletes) ==
    IF from = "list" /\ creates # <<>> THEN "create"
    ELSE IF from \in {"list", "create"} /\ updates # <<>> THEN "update"
    ELSE IF from \in {"list", "create", "update"} /\ deletes # <<>> THEN "delete"
    ELSE "synced"

\* one HTTP call to the store, with the category of the sync that makes it
Call(op, items, ok) == [op |-> op, items |-> items, ok |-> ok, cat |-> category_label]

\* airtable_existing_fields(): one GET with maxRecords=1; a status that is
\* not ok is logged and gives the empty set
ExistingFields ==
    /\ pc = "probe"
    /\ \E ok \in BOOLEAN :
        /\ allowed' = IF ok THEN SampledFields(store) ELSE {}
        /\ calls' = Append(calls, Call("probe", <<>>, ok))
    /\ pc' = "list"
    /\ UNCHANGED <<runVars, priceVars, keyVars, textVars, storeVars, syncArgs, listed, to_create,
                   to_update, to_delete_ids, bi>>

\* airtable_list_all() and the planning that follows it (lines 995-1020); a
\* status that is not ok raises RuntimeError
ListAll ==
    /\ pc = "list"
    /\ \E ok \in BOOLEAN :
        /\ calls' = Append(calls, Call("list", <<>>, ok))
        /\ IF ok
           THEN LET existing == ExistingOf(store, category_label)
                    desired  == DesiredOf(scraped_rows, category_label, allowed)
                IN  /\ listed' = store
                    /\ to_create' = ToCreate(desired, existing)
                    /\ to_update' = ToUpdate(desired, existing)
                    /\ to_delete_ids' = ToDelete(desired, existing)
                    /\ pc' = PhaseAfter("list", to_create', to_update', to_delete_ids')
           ELSE /\ pc' = "raised"
                /\ UNCHANGED <<listed, to_create, to_update, to_delete_ids>>
    /\ UNCHANGED <<runVars, priceVars, keyVars, textVars, storeVars, syncArgs, allowed, bi>>

\* a sender that logs a refused batch and goes on with the next one
BatchCreate_goes_on ==
    /\ pc = "create"
    /\ IF bi >= Len(to_create)
       THEN /\ pc' = PhaseAfter("create", to_create, to_update, to_delete_ids)
            /\ bi' = 0
            /\ UNCHANGED <<storeVars, calls>>
       ELSE \E ok \in BOOLEAN :
            /\ calls' = Append(calls, Call("create", BatchOf(to_create, bi), ok))
            /\ store' = IF ok THEN ApplyCreate(store, nextId, BatchOf(to_create, bi)) ELSE store
            /\ nextId' = IF ok THEN nextId + Len(BatchOf(to_create, bi)) ELSE nextId
            /\ bi' = bi + BatchSize
            /\ pc' = pc
    /\ UNCHANGED <<runVars, priceVars, keyVars, textVars, syncArgs, planVars>>

\* one turn of the loop of airtable_batch_create
BatchCreate ==
    /\ pc = "create"
    /\ IF bi >= Len(to_create)
       THEN /\ pc' = PhaseAfter("create", to_create, to_update, to_delete_ids)
            /\ bi' = 0
            /\ UNCHANGED <<storeVars, calls>>
       ELSE \E ok \in BOOLEAN :
            /\ calls' = Append(calls, Call("create", BatchOf(to_create, bi), ok))
            /\ IF ok
               THEN /\ store' = ApplyCreate(store, nextId, BatchOf(to_create, bi))
                    /\ nextId' = nextId + Len(BatchOf(to_create, bi))
                    /\ bi' = bi + BatchSize
                    /\ pc' = pc
               ELSE /\ pc' = "raised"
                    /\ UNCHANGED <<storeVars, bi>>
    /\ UNCHANGED <<runVars, priceVars, keyVars, textVars, syncArgs, planVars>>

\* one turn of the loop of airtable_batch_update
BatchUpdate ==
    /\ pc = "update"
    /\ IF bi >= Len(to_update)
       THEN /\ pc' = PhaseAfter("update", to_create, to_update, to_delete_ids)
            /\ bi' = 0
            /\ UNCHANGED <<storeVars, calls>>
       ELSE \E ok \in BOOLEAN :
            /\ calls' = Append(calls, Call("update", BatchOf(to_update, bi), ok))
            /\ IF ok
               THEN /\ store' = ApplyUpdate(store, BatchOf(to_update, bi))
                    /\ bi' = bi + BatchSize
                    /\ pc' = pc
                    /\ UNCHANGED nextId
               ELSE /\ pc' = "raised"
                    /\ UNCHANGED <<storeVars, bi>>
    /\ UNCHANGED <<runVars, priceVars, keyVars, textVars, syncArgs, planVars>>

\* one turn of the loop of airtable_batch_delete
BatchDelete ==
    /\ pc = "delete"
    /\ IF bi >= Len(to_delete_ids)
       THEN /\ pc' = PhaseAfter("delete", to_create, to_update, to_delete_ids)
            /\ bi' = 0
            /\ UNCHANGED <<storeVars, calls>>
       ELSE \E ok \in BOOLEAN :
            /\ calls' = Append(calls, Call("delete", BatchOf(to_delete_ids, bi), ok))
            /\ IF ok
               THEN /\ store' = ApplyDelete(store, BatchOf(to_delete_ids, bi))
                    /\ bi' = bi + BatchSize
                    /\ pc' = pc
                    /\ UNCHANGED nextId
               ELSE /\ pc' = "raised"
                    /\ UNCHANGED <<storeVars, bi>>
    /\ UNCHANGED <<runVars, priceVars, keyVars, textVars, syncArgs, planVars>>

\* the values of the variables a specification does not use
PriceIdle == label = <<>> /\ cleaned = <<>> /\ value = NoNumber

KeyIdle == fields_a = EmptyDict /\ fields_b = EmptyDict /\ key_a = <<>> /\ key_b = <<>>

DescIdle ==
    /\ main_soup = <<>> /\ frames = <<>> /\ sw_links = <<>> /\ tried = <<>>
    /\ description = <<>>

NormalizeIdle == gpt_output = <<>> /\ scraped_data = EmptyDict /\ kurzbeschreibung = <<>>

TextIdle == NormalizeIdle /\ DescIdle

NoCsv == [kauf |-> <<>>, miete |-> <<>>]

NoRow == [Titel |-> <<"no row">>]

RunIdle ==
    /\ mode = "" /\ configured = TRUE
    /\ site = <<>> /\ idx = 0 /\ seen = {} /\ new_links = <<>> /\ row = NoRow
    /\ all_rows = <<>> /\ skipped = <<>> /\ cache = EmptyDict
    /\ pending = <<>> /\ csv = NoCsv
    /\ openai = FALSE /\ log = <<>>

SyncIdle ==
    /\ store = <<>> /\ nextId = 1
    /\ scraped_rows = <<>> /\ category_label = <<>>
    /\ allowed = {} /\ listed = <<>>
    /\ to_create = <<>> /\ to_update = <<>> /\ to_delete_ids = <<>>
    /\ bi = 0 /\ calls = <<>>

(***************************************************************************)
(* The price parser on raw currency texts                                  *)
(***************************************************************************)
\* a result not computed yet
NotRun == <<"not run">>

NotRunNum == [m |-> -2, e |-> 0]

NoKey == <<"no key">>

\* the amounts written out in the texts
Amounts == {5, 479, 1500, 479000, 1234567}

Comma00 == <<",", "0", "0">>

EuroSuffix == <<" ", "euro">>

\* the separator styles of an amount n
PeriodThousandsCommaDecimal(n) == Grouped(n, ".") \o Comma00
CommaDecimalOnly(n) == NatStr(n) \o Comma00
PeriodThousandsOnly(n) == Grouped(n, ".")
ThinThousands(n) == Grouped(n, "nbsp")
PlainDigits(n) == NatStr(n)

Renderings(n) ==
    {PeriodThousandsCommaDecimal(n), CommaDecimalOnly(n), PeriodThousandsOnly(n),
     ThinThousands(n), PlainDigits(n), Grouped(n, ".") \o <<",", "5", "0">>}

OddLabels ==
    {<<>>, <<"a", "b", "c">>, <<"a", "b", "1", "2">>, <<"1", ".", "5">>,
     <<"1", ".", "2", "3", "4", "5">>,
     <<"1", ".", "2", "3", "4", "nbsp", "5", "6", "7", "nbsp", "8", "9", "0">>,
     <<"1", ".", "2", "3", "4", ".", "5", "6", "7", "thin", "8", "9", "0", "thin", "1", "2", "3">>}

Labels ==
    OddLabels \cup
    { pre \o body \o suf :
        pre \in {<<>>, <<"a", "b", " ">>},
        body \in UNION {Renderings(n) : n \in Amounts},
        suf \in {<<>>, EuroSuffix} }

InitParse ==
    /\ pc = "parse"
    /\ label \in Labels
    /\ cleaned = NotRun
    /\ value = NotRunNum
    /\ KeyIdle
    /\ TextIdle
    /\ SyncIdle
    /\ RunIdle

CleanPriceString ==
    /\ pc = "parse"
    /\ cleaned = NotRun
    /\ cleaned' = clean_price_string(label)
    /\ UNCHANGED <<pc, label, value, keyVars, textVars, syncVars, runVars>>

ParsePriceToNumber ==
    /\ pc = "parse"
    /\ value = NotRunNum
    /\ value' = parse_price_to_number(label)
    /\ UNCHANGED <<pc, label, cleaned, keyVars, textVars, syncVars, runVars>>

NextParse == CleanPriceString \/ ParsePriceToNumber

SpecParse == InitParse /\ [][NextParse]_vars

\* the three separator styles the price parser is said to support
SupportedStyles(n) ==
    { body \o suf :
        body \in {PeriodThousandsCommaDecimal(n), CommaDecimalOnly(n), PeriodThousandsOnly(n)},
        suf \in {<<>>, EuroSuffix} }

\* C9: a currency text in any supported separator style (period thousands
\* with comma decimals, comma decimals only, period thousands only) parses
\* to the amount it writes: "479.000,00 <euro>", "479.000 <euro>" and
\* "479000,00" all parse to 479000.0.
C9_SameValueInEveryStyle ==
    value # NotRunNum =>
        \A n \in Amounts : label \in SupportedStyles(n) => value = Float(n)


(***************************************************************************)
(* unique_key on pairs of field sets                                       *)
(***************************************************************************)
KeyObjektnummern ==
    {PyNone, PyStr(<<>>), PyStr(<<" ">>), PyStr(<<"4", "2">>),
     PyStr(<<" ", "4", "2", " ">>), PyStr(<<"u", "1">>)}

KeyWebseiten == {PyNone, PyStr(<<>>), PyStr(<<"u", "1">>), PyStr(<<"u", "1", " ">>)}

KeyTitel == {PyStr(<<"A">>), PyStr(<<"B">>)}

\* field sets with and without each of the two key fields
KeyFieldSets ==
    { Restrict([Objektnummer |-> o, Webseite |-> w, Titel |-> t], ks) :
        o \in KeyObjektnummern, w \in KeyWebseiten, t \in KeyTitel,
        ks \in {{"Objektnummer", "Webseite", "Titel"}, {"Webseite", "Titel"},
                {"Objektnummer", "Titel"}, {"Titel"}} }

InitKey ==
    /\ pc = "key"
    /\ fields_a \in KeyFieldSets
    /\ fields_b \in KeyFieldSets
    /\ key_a = NoKey
    /\ key_b = NoKey
    /\ PriceIdle
    /\ TextIdle
    /\ SyncIdle
    /\ RunIdle

UniqueKey ==
    /\ pc = "key"
    /\ key_a = NoKey
    /\ key_a' = unique_key(fields_a)
    /\ key_b' = unique_key(fields_b)
    /\ UNCHANGED <<pc, fields_a, fields_b, priceVars, textVars, syncVars, runVars>>

NextKey == UniqueKey

SpecKey == InitKey /\ [][NextKey]_vars


HasPrefix(k, p) == Len(k) >= Len(p) /\ SubSeq(k, 1, Len(p)) = p

ObjTrimmed(f) == Strip(GetOrEmpty(f, "Objektnummer"))

UrlTrimmed(f) == Strip(GetOrEmpty(f, "Webseite"))

\* C5: the natural key comes from Objektnummer when that is non-empty after
\* trimming, otherwise from Webseite when that is non-empty, otherwise from a
\* hash of the field set; two records with the same non-empty Objektnummer
\* get the same key whatever their other fields, and a key that comes from
\* an Objektnummer never equals one that comes from a URL or a hash.
C5_KeyDerivation ==
    key_a # NoKey =>
        /\ HasPrefix(key_a, PrefixObj) <=> ObjTrimmed(fields_a) # <<>>
        /\ HasPrefix(key_a, PrefixUrl) <=>
               (ObjTrimmed(fields_a) = <<>> /\ UrlTrimmed(fields_a) # <<>>)
        /\ HasPrefix(key_a, PrefixHash) <=>
               (ObjTrimmed(fields_a) = <<>> /\ UrlTrimmed(fields_a) = <<>>)
        /\ (ObjTrimmed(fields_a) # <<>> /\ ObjTrimmed(fields_a) = ObjTrimmed(fields_b))
               => key_a = key_b
        /\ (ObjTrimmed(fields_a) = <<>> /\ ObjTrimmed(fields_b) = <<>>
               /\ UrlTrimmed(fields_a) # <<>> /\ UrlTrimmed(fields_a) = UrlTrimmed(fields_b))
               => key_a = key_b
        /\ (ObjTrimmed(fields_a) # <<>> /\ ObjTrimmed(fields_b) = <<>>) => key_a # key_b

\* an Objektnummer and, in a record without one, a Webseite of the same text;
\* the two records differ in every other field
C5_Witness ==
    /\ key_a # NoKey
    /\ ObjTrimmed(fields_a) = <<"u", "1">>
    /\ ObjTrimmed(fields_b) = <<>>
    /\ UrlTrimmed(fields_b) = <<"u", "1">>
    /\ Get(fields_a, "Titel") # Get(fields_b, "Titel")
    /\ key_a = PrefixObj \o <<"u", "1">>
    /\ key_b = PrefixUrl \o <<"u", "1">>


(***************************************************************************)
(* sync_category(scraped_rows, category_label) against a store             *)
(***************************************************************************)
MaxRemote == 2

MaxRows == 2

\* a record as make_record builds it
Row(titel, kategorie, url, objektnummer, preis) ==
    [f \in FieldNames |->
        CASE f = "Titel"        -> PyStr(titel)
          [] f = "Kategorie"    -> PyStr(kategorie)
          [] f = "Webseite"     -> PyStr(url)
          [] f = "Objektnummer" -> PyStr(objektnummer)
          [] f = "Preis"        -> preis
          [] OTHER              -> PyStr(<<>>)]

Url1 == <<"u", "1">>

Url2 == <<"u", "2">>

RowPool ==
    { Row(<<"a">>, Kaufen, Url1, <<"1">>, PyNum(Float(479000))),
      Row(<<"b">>, Kaufen, Url2, <<" ", "1">>, PyNone),
      Row(<<"c">>, Mieten, Url2, <<"2">>, PyNum(Float(1500))),
      Row(<<"d">>, Kaufen, Url2, <<>>, PyNum(Float(5))) }

\* what the table may hold: records written by an earlier run, records edited
\* by hand, records without an Objektnummer, records without a Kategorie
RemotePool ==
    { Row(<<"a">>, Kaufen, Url1, <<"1">>, PyNum(Float(450000))),
      Row(<<"a">>, Kaufen, Url1, <<"1">>, PyNum(Float(479000))),
      Without(Row(<<"c">>, Mieten, Url2, <<"2">>, PyNone), "Preis"),
      Restrict(Row(<<"e">>, Kaufen, Url2, <<>>, PyNone), {"Titel", "Kategorie", "Webseite"}),
      Restrict(Row(<<"e">>, Kaufen, Url1, <<>>, PyNone), {"Titel", "Kategorie", "Webseite"}),
      Restrict(Row(<<"f">>, Kaufen, Url1, <<"3">>, PyNone), {"Titel", "Objektnummer"}) }

InjectiveSeqs(S, n) ==
    UNION { { q \in [1..k -> S] : \A i, j \in 1..k : i # j => q[i] # q[j] } : k \in 0..n }

Stores ==
    { [i \in 1..Len(q) |-> [id |-> i, fields |-> q[i]]] : q \in InjectiveSeqs(RemotePool, MaxRemote) }

RowLists == InjectiveSeqs(RowPool, MaxRows)

InitSync ==
    /\ pc = "probe"
    /\ store \in Stores
    /\ nextId = Len(store) + 1
    /\ scraped_rows \in RowLists
    /\ category_label \in {Kaufen, Mieten}
    /\ allowed = {} /\ listed = <<>>
    /\ to_create = <<>> /\ to_update = <<>> /\ to_delete_ids = <<>>
    /\ bi = 0 /\ calls = <<>>
    /\ PriceIdle
    /\ KeyIdle
    /\ TextIdle
    /\ RunIdle

NextSync == ExistingFields \/ ListAll \/ BatchCreate \/ BatchUpdate \/ BatchDelete

SpecSync == InitSync /\ [][NextSync]_vars

(***************************************************************************)
(* The sets and the copies the sync contract speaks of                     *)
(***************************************************************************)
RowsInCategory == {i \in 1..Len(scraped_rows) : InCategory(scraped_rows[i], category_label)}

RemoteInCategory == {i \in 1..Len(listed) : InCategory(listed[i].fields, category_label)}

\* D: the natural keys of the scraped rows of the category
D == {unique_key(scraped_rows[i]) : i \in RowsInCategory}

\* E: the natural keys of the remote records of the category
E == {unique_key(listed[i].fields) : i \in RemoteInCategory}

Last(S) == CHOOSE i \in S : \A j \in S : j <= i

\* the desired field values of a key of D: those of the last row that has the key
DesiredFor(k) ==
    sanitize_record_for_airtable(
        scraped_rows[Last({i \in RowsInCategory : unique_key(scraped_rows[i]) = k})], allowed)

\* the remote copy of a key of E: the last listed record that has the key
RemoteFor(k) == listed[Last({i \in RemoteInCategory : unique_key(listed[i].fields) = k})]

ChangedFields(k) ==
    {f \in DOMAIN DesiredFor(k) : Get(RemoteFor(k).fields, f) # DesiredFor(k)[f]}

RECURSIVE SentUpTo(_, _)
SentUpTo(op, n) ==
    IF n = 0 THEN <<>>
    ELSE SentUpTo(op, n - 1) \o (IF calls[n].op = op THEN calls[n].items ELSE <<>>)

\* the items of all calls of one kind made so far, in the order sent
Sent(op) == SentUpTo(op, Len(calls))

\* C1: a call of sync_category that returns has sent |D \ E| creates, |E \ D|
\* deletes, and for each key of D \cap E one update when a desired field value
\* differs from the remote copy and none otherwise.
C1_CreatesUpdatesDeletes ==
    pc = "synced" =>
        /\ Len(Sent("create")) = Cardinality(D \ E)
        /\ Len(Sent("delete")) = Cardinality(E \ D)
        /\ \A k \in D \cap E :
              Cardinality({i \in 1..Len(Sent("update")) : Sent("update")[i].id = RemoteFor(k).id})
                  = IF ChangedFields(k) # {} THEN 1 ELSE 0
        /\ Len(Sent("update")) = Cardinality({k \in D \cap E : ChangedFields(k) # {}})

C1_Witness ==
    /\ pc = "synced"
    /\ Len(Sent("create")) = 1
    /\ Len(Sent("update")) = 1
    /\ Len(Sent("delete")) = 1
    /\ Cardinality(D \cap E) = 1

\* C2: every update sent carries the id of the remote copy of a key of D \cap E
\* and exactly the desired fields whose value differs from that copy.
C2_UpdateIsIdAndChangedFields ==
    \A i \in 1..Len(Sent("update")) :
        \E k \in D \cap E :
            /\ Sent("update")[i].id = RemoteFor(k).id
            /\ Sent("update")[i].fields = Restrict(DesiredFor(k), ChangedFields(k))
            /\ ChangedFields(k) # {}

\* scraped Preis 479000.0 against remote Preis 450000, all other fields equal:
\* one update with {Preis: 479000.0} only
C2_Witness ==
    /\ scraped_rows = <<Row(<<"a">>, Kaufen, Url1, <<"1">>, PyNum(Float(479000)))>>
    /\ listed = <<[id |-> 1, fields |-> Row(<<"a">>, Kaufen, Url1, <<"1">>, PyNum(Float(450000)))]>>
    /\ Sent("update") = <<[id |-> 1, fields |-> [f \in {"Preis"} |-> PyNum(Float(479000))]]>>

(***************************************************************************)
(* The three batch senders on long lists: sync_category after its          *)
(* planning, with nu records to update, nd to delete and nc to create      *)
(***************************************************************************)
MaxItems == 21

ItemRow(titel, i) == Row(titel, Kaufen, <<>>, NatStr(i), PyNone)

RemoteItems(n) ==
    [i \in 1..n |-> [id |-> i, fields |-> sanitize_record_for_airtable(ItemRow(<<"a">>, i), {})]]

\* the rows of the scrape: the first nu records with a new Titel, then nc new ones
ScrapedItems(nu, nd, nc) ==
    [i \in 1..(nu + nc) |->
        IF i <= nu THEN ItemRow(<<"b">>, i) ELSE ItemRow(<<"a">>, nd + i)]

InitBatch ==
    \E nu, nd, nc \in 0..MaxItems :
        /\ nu + nd + nc <= MaxItems
        /\ store = RemoteItems(nu + nd)
        /\ nextId = nu + nd + 1
        /\ scraped_rows = ScrapedItems(nu, nd, nc)
        /\ category_label = Kaufen
        /\ allowed = SampledFields(store)
        /\ listed = store
        /\ to_create = ToCreate(DesiredOf(scraped_rows, Kaufen, allowed), ExistingOf(store, Kaufen))
        /\ to_update = ToUpdate(DesiredOf(scraped_rows, Kaufen, allowed), ExistingOf(store, Kaufen))
        /\ to_delete_ids = ToDelete(DesiredOf(scraped_rows, Kaufen, allowed), ExistingOf(store, Kaufen))
        /\ bi = 0
        /\ calls = <<Call("probe", <<>>, TRUE), Call("list", <<>>, TRUE)>>
        /\ pc = PhaseAfter("list", to_create, to_update, to_delete_ids)
        /\ PriceIdle
        /\ KeyIdle
        /\ TextIdle
        /\ RunIdle

NextBatch == BatchCreate \/ BatchUpdate \/ BatchDelete

SpecBatch == InitBatch /\ [][NextBatch]_vars

Mutations == {"create", "update", "delete"}

ListOf(op) ==
    CASE op = "create" -> to_create
      [] op = "update" -> to_update
      [] op = "delete" -> to_delete_ids

CallsOf(op) == {i \in 1..Len(calls) : calls[i].op = op}

\* C6: each sender sends its n items in ceil(n/10) calls of 1 to 10 items;
\* with no failure every item is sent once, in input order.
C6_BatchesOfTen ==
    /\ \A i \in 1..Len(calls) :
          calls[i].op \in Mutations =>
              Len(calls[i].items) >= 1 /\ Len(calls[i].items) <= BatchSize
    /\ \A op \in Mutations :
          /\ Len(Sent(op)) <= Len(ListOf(op))
          /\ Sent(op) = SubSeq(ListOf(op), 1, Len(Sent(op)))
    /\ pc = "synced" =>
          \A op \in Mutations :
              /\ Sent(op) = ListOf(op)
              /\ Cardinality(CallsOf(op)) = (Len(ListOf(op)) + BatchSize - 1) \div BatchSize

\* 21 creates sent in three calls of 10, 10 and 1 payloads
C6_Witness ==
    /\ pc = "synced"
    /\ Len(to_create) = 2 * BatchSize + 1
    /\ Cardinality(CallsOf("create")) = 3
    /\ Len(calls[Len(calls)].items) = 1
    /\ Sent("create") = to_create

(***************************************************************************)
(* sync_category from its first line on short inputs, and from the end of  *)
(* its planning on long lists                                              *)
(***************************************************************************)
InitSyncBatches == InitSync \/ InitBatch

SpecSyncBatches == InitSyncBatches /\ [][NextSync]_vars

PhaseRank(op) ==
    CASE op = "probe"  -> 0
      [] op = "list"   -> 1
      [] op = "create" -> 2
      [] op = "update" -> 3
      [] op = "delete" -> 4

ListedOk == \E i \in 1..Len(calls) : calls[i].op = "list" /\ calls[i].ok

\* the listed records with every accepted batch of the first n calls applied
RECURSIVE Replayed(_)
Replayed(n) ==
    IF n = 0 THEN listed
    ELSE LET before == Replayed(n - 1)
             c      == calls[n]
         IN  IF ~c.ok THEN before
             ELSE CASE c.op = "create" -> ApplyCreate(before, Len(before) + 1, c.items)
                    [] c.op = "update" -> ApplyUpdate(before, c.items)
                    [] c.op = "delete" -> ApplyDelete(before, c.items)
                    [] OTHER           -> before

\* C7 as stated: every call of the sync step that is refused is the last
\* call, and the sync has raised.
C7_AnyRefusedCallRaises ==
    \A i \in 1..Len(calls) : ~calls[i].ok => i = Len(calls) /\ pc = "raised"

\* C7, amended: a refused list, create, update or delete call is the last
\* call and the sync has raised, a sync raises for no other reason, the
\* calls come in the order probe, list, creates, updates, deletes, and the
\* store holds the listed records with every accepted batch applied; a
\* refused schema probe is not raised and the sync goes on.
C7_RefusedListOrBatchRaises ==
    /\ \A i \in 1..Len(calls) :
          (~calls[i].ok /\ calls[i].op # "probe") => i = Len(calls) /\ pc = "raised"
    /\ pc = "raised" => calls # <<>> /\ ~calls[Len(calls)].ok
    /\ \A i, j \in 1..Len(calls) : i < j => PhaseRank(calls[i].op) <= PhaseRank(calls[j].op)
    /\ \A i \in 1..Len(calls) :
          (~calls[i].ok /\ calls[i].op = "probe") =>
              /\ allowed = {}
              /\ pc # "raised" \/ Len(calls) > i
    /\ ListedOk => store = Replayed(Len(calls))

\* a second create batch is refused after a first one was accepted: the ten
\* records of the first batch are in the store, the updates are never sent
C7_Witness ==
    /\ pc = "raised"
    /\ Len(calls) = 4
    /\ calls[3].op = "create" /\ calls[3].ok
    /\ calls[4].op = "create" /\ ~calls[4].ok
    /\ Len(store) = Len(listed) + BatchSize
    /\ to_update # <<>>
    /\ Sent("update") = <<>>

(***************************************************************************)
(* DETAIL-PARSER and RECORD BUILDER                                        *)
(***************************************************************************)
\* \bw\b at i
WordAt(s, i, w) == WordBoundary(s, i) /\ StartsAt(s, i, w) /\ WordBoundary(s, i + Len(w))

\* re.search(r"\bw\b", s)
HasWord(s, w) == \E i \in 1..Len(s) : WordAt(s, i, w)

Zur == <<"z", "u", "r">>

Miete == <<"m", "i", "e", "t", "e">>

MieteWords == {<<"k", "a", "l", "t", "m", "i", "e", "t", "e">>,
               <<"w", "a", "r", "m", "m", "i", "e", "t", "e">>,
               <<"n", "e", "t", "t", "o", "k", "a", "l", "t", "m", "i", "e", "t", "e">>}

\* RE_MIETE.search(s): \bzur\s*miete\b|\b(kaltmiete|warmmiete|nettokaltmiete)\b
RE_MIETE_search(s) ==
    \/ \E i \in 1..Len(s) :
          /\ WordBoundary(s, i)
          /\ StartsAt(s, i, Zur)
          /\ StartsAt(s, i + Len(Zur) + SpanSpaces(s, i + Len(Zur)), Miete)
          /\ WordBoundary(s, i + Len(Zur) + SpanSpaces(s, i + Len(Zur)) + Len(Miete))
    \/ \E w \in MieteWords : HasWord(s, w)

Verkauft == <<"v", "e", "r", "k", "a", "u", "f", "t">>

\* re.search(r"\bverkauft\b", titel, re.IGNORECASE)
IsSoldTitle(titel) == HasWord(LowerStr(titel), Verkauft)

\* the dict parse_detail returns for a detail page
parse_detail(page) ==
    [Titel             |-> page.title,
     URL               |-> page.url,
     Description       |-> page.description,
     Objektnummer      |-> page.objektnummer,
     Preis             |-> extract_price(page),
     Ort               |-> page.ort,
     Bild_URL          |-> page.image_url,
     KategorieDetected |-> IF RE_MIETE_search(LowerStr(page.page_text)) THEN Mieten ELSE Kaufen]

\* the text normalize_kurzbeschreibung builds, as one atom
GeneratedSummary == <<"summary">>

\* a cache lookup that finds nothing
get_cached_kurzbeschreibung_miss(objektnummer, kcache) == <<>>

\* KURZBESCHREIBUNG_CACHE.get(objektnummer, "")
get_cached_kurzbeschreibung(objektnummer, kcache) ==
    IF objektnummer \in DOMAIN kcache THEN kcache[objektnummer] ELSE <<>>

\* the cache check of generate_kurzbeschreibung, then the generated text
generate_kurzbeschreibung(objektnummer, kcache) ==
    IF objektnummer # <<>> /\ get_cached_kurzbeschreibung(objektnummer, kcache) # <<>>
    THEN get_cached_kurzbeschreibung(objektnummer, kcache)
    ELSE GeneratedSummary

\* a printed line
Line(ev, n, url) == [ev |-> ev, n |-> n, url |-> url]

\* what generate_kurzbeschreibung prints: [CACHE] for a cached summary, else
\* [GPT] for the request to the text generator when the key is set, else
\* [WARN] OPENAI_API_KEY nicht gesetzt
SummaryLines(objektnummer, kcache, key) ==
    IF objektnummer # <<>> /\ get_cached_kurzbeschreibung(objektnummer, kcache) # <<>>
    THEN <<Line("CACHE", 0, objektnummer)>>
    ELSE IF key THEN <<Line("GPT", 0, objektnummer)>>
    ELSE <<Line("NOKEY", 0, objektnummer)>>

NumOrNone(v) == IF v = NoNumber THEN PyNone ELSE PyNum(v)

make_record(rw, kcache) ==
    [f \in FieldNames |->
        CASE f = "Titel"            -> PyStr(rw.Titel)
          [] f = "Kategorie"        -> PyStr(rw.KategorieDetected)
          [] f = "Webseite"         -> PyStr(rw.URL)
          [] f = "Objektnummer"     -> PyStr(rw.Objektnummer)
          [] f = "Beschreibung"     -> PyStr(rw.Description)
          [] f = "Kurzbeschreibung" -> PyStr(generate_kurzbeschreibung(rw.Objektnummer, kcache))
          [] f = "Bild"             -> PyStr(rw.Bild_URL)
          [] f = "Preis"            -> NumOrNone(parse_price_to_number(rw.Preis))
          [] f = "Standort"         -> PyStr(rw.Ort)]

\* KURZBESCHREIBUNG_CACHE after the loop of load_kurzbeschreibung_cache
RECURSIVE CacheOf(_)
CacheOf(records) ==
    IF records = <<>> THEN EmptyDict
    ELSE LET n      == Len(records)
             rest   == CacheOf(SubSeq(records, 1, n - 1))
             f      == records[n].fields
             obj_nr == Strip(IF "Objektnummer" \in DOMAIN f THEN f["Objektnummer"].s ELSE <<>>)
             kurz   == Strip(IF "Kurzbeschreibung" \in DOMAIN f THEN f["Kurzbeschreibung"].s ELSE <<>>)
         IN  IF obj_nr # <<>> /\ kurz # <<>>
             THEN [k \in DOMAIN rest \cup {obj_nr} |-> IF k = obj_nr THEN kurz ELSE rest[k]]
             ELSE rest

(***************************************************************************)
(* run(mode)                                                               *)
(***************************************************************************)
\* the list pages get_list_page_urls gives
MaxPages == 50

Modes == {"kauf", "miete", "auto"}

Urls(pages) == {pages[i].url : i \in 1..Len(pages)}

RowsOf(rows, lbl) == SelectSeq(rows, LAMBDA r : r["Kategorie"] = PyStr(lbl))

\* load_kurzbeschreibung_cache(): an exception of the listing is caught and
\* leaves the cache as it is
LoadCache ==
    /\ pc = "start"
    /\ IF configured
       THEN \E ok \in BOOLEAN :
               /\ calls' = Append(calls, Call("cache", <<>>, ok))
               /\ cache' = IF ok THEN CacheOf(store) ELSE cache
       ELSE UNCHANGED <<calls, cache>>
    /\ idx' = 1
    /\ pc' = "scrape"
    /\ UNCHANGED <<priceVars, keyVars, textVars, storeVars, syncArgs, planVars, bi, mode,
                   configured, site, seen, new_links, row, all_rows, skipped, pending, csv,
                   openai, log>>

\* a turn of the loop over the list pages that takes every link of the page
\* as new, seen before or not
CollectDetailLinks_forgets_seen ==
    /\ pc = "scrape"
    /\ IF idx > MaxPages
       THEN /\ pc' = "split"
            /\ UNCHANGED <<idx, seen, new_links, log>>
       ELSE \E ok \in BOOLEAN :
            LET detail_links == IF idx <= Len(site) THEN site[idx] ELSE <<>>
            IN  IF ~ok \/ detail_links = <<>>
                THEN /\ pc' = "split"
                     /\ log' = IF ok THEN log ELSE Append(log, Line("WARN", idx, <<>>))
                     /\ UNCHANGED <<idx, seen, new_links>>
                ELSE /\ seen' = seen \cup Urls(detail_links)
                     /\ new_links' = detail_links
                     /\ pc' = "detail"
                     /\ UNCHANGED <<idx, log>>
    /\ UNCHANGED <<priceVars, keyVars, textVars, syncVars, mode, configured, site, row,
                   all_rows, skipped, cache, pending, csv, openai>>

\* one turn of the loop over the list pages, up to the loop over new_links:
\* collect_detail_links raises (ok is FALSE), or gives the links of the page,
\* none for a page the site does not have
CollectDetailLinks ==
    /\ pc = "scrape"
    /\ IF idx > MaxPages
       THEN /\ pc' = "split"
            /\ UNCHANGED <<idx, seen, new_links, log>>
       ELSE \E ok \in BOOLEAN :
            LET detail_links == IF idx <= Len(site) THEN site[idx] ELSE <<>>
                fresh        == SelectSeq(detail_links, LAMBDA d : d.url \notin seen)
            IN  IF ~ok \/ detail_links = <<>>
                THEN /\ pc' = "split"
                     /\ log' = IF ok THEN log ELSE Append(log, Line("WARN", idx, <<>>))
                     /\ UNCHANGED <<idx, seen, new_links>>
                ELSE /\ seen' = seen \cup Urls(fresh)
                     /\ new_links' = fresh
                     /\ idx' = IF fresh = <<>> THEN idx + 1 ELSE idx
                     /\ pc' = IF fresh = <<>> THEN "scrape" ELSE "detail"
                     /\ UNCHANGED log
    /\ UNCHANGED <<priceVars, keyVars, textVars, syncVars, mode, configured, site, row,
                   all_rows, skipped, cache, pending, csv, openai>>

\* parse_detail with an exception that leaves the loop instead of the turn
ParseDetail_stops ==
    /\ pc = "detail"
    /\ \E ok \in BOOLEAN :
        IF ok
        THEN /\ row' = parse_detail(Head(new_links))
             /\ pc' = "record"
             /\ UNCHANGED <<new_links, idx, log>>
        ELSE /\ log' = Append(log, Line("FEHLER", idx, Head(new_links).url))
             /\ pc' = "split"
             /\ UNCHANGED <<new_links, idx, row>>
    /\ UNCHANGED <<priceVars, keyVars, textVars, syncVars, mode, configured, site, seen,
                   all_rows, skipped, cache, pending, csv, openai>>

\* The loop over new_links up to the return of parse_detail: parse_detail
\* raises (ok is FALSE), the listing is left out and the loop goes on, or it
\* returns the row.
ParseDetail ==
    /\ pc = "detail"
    /\ \E ok \in BOOLEAN :
        IF ok
        THEN /\ row' = parse_detail(Head(new_links))
             /\ pc' = "record"
             /\ UNCHANGED <<new_links, idx, log>>
        ELSE /\ log' = Append(log, Line("FEHLER", idx, Head(new_links).url))
             /\ new_links' = Tail(new_links)
             /\ idx' = IF new_links' = <<>> THEN idx + 1 ELSE idx
             /\ pc' = IF new_links' = <<>> THEN "scrape" ELSE "detail"
             /\ UNCHANGED row
    /\ UNCHANGED <<priceVars, keyVars, textVars, syncVars, mode, configured, site, seen,
                   all_rows, skipped, cache, pending, csv, openai>>

\* The rest of the turn: the title says sold and the listing is skipped, or
\* its record is built and appended, or an exception in the rest of the try
\* block (ok is FALSE) is caught and the listing is left out.
BuildRecord ==
    /\ pc = "record"
    /\ \E ok \in BOOLEAN :
        IF IsSoldTitle(row.Titel)
        THEN /\ ok
             /\ skipped' = Append(skipped, row.Titel)
             /\ UNCHANGED <<all_rows, log>>
        ELSE IF ok
        THEN /\ all_rows' = Append(all_rows, make_record(row, cache))
             /\ log' = log \o SummaryLines(row.Objektnummer, cache, openai)
             /\ UNCHANGED skipped
        ELSE /\ log' = Append(log, Line("FEHLER", idx, row.URL))
             /\ UNCHANGED <<all_rows, skipped>>
    /\ row' = NoRow
    /\ new_links' = Tail(new_links)
    /\ idx' = IF new_links' = <<>> THEN idx + 1 ELSE idx
    /\ pc' = IF new_links' = <<>> THEN "scrape" ELSE "detail"
    /\ UNCHANGED <<priceVars, keyVars, textVars, syncVars, mode, configured, site, seen,
                   cache, pending, csv, openai>>

SyncCall(rows, lbl) == [rows |-> rows, lbl |-> lbl]

\* lines 1084-1117 up to the first call of sync_category
Split ==
    /\ pc = "split"
    /\ IF all_rows = <<>>
       THEN /\ pc' = "done"
            /\ UNCHANGED <<csv, pending>>
       ELSE LET rows_kauf  == IF mode = "miete" THEN <<>> ELSE RowsOf(all_rows, Kaufen)
                rows_miete == IF mode = "kauf" THEN <<>> ELSE RowsOf(all_rows, Mieten)
            IN  /\ csv' = [kauf |-> rows_kauf, miete |-> rows_miete]
                /\ pending' = IF configured
                              THEN (IF rows_kauf # <<>> THEN <<SyncCall(rows_kauf, Kaufen)>> ELSE <<>>)
                                   \o (IF rows_miete # <<>> THEN <<SyncCall(rows_miete, Mieten)>> ELSE <<>>)
                              ELSE <<>>
                /\ pc' = "dispatch"
    /\ UNCHANGED <<priceVars, keyVars, textVars, syncVars, mode, configured, site, idx, seen,
                   new_links, row, all_rows, skipped, cache, openai, log>>

\* run calls sync_category for the next category, or returns
Dispatch ==
    /\ pc \in {"dispatch", "synced"}
    /\ mode \in Modes
    /\ IF pending = <<>>
       THEN /\ pc' = "done"
            /\ UNCHANGED <<syncArgs, planVars, pending>>
       ELSE /\ scraped_rows' = Head(pending).rows
            /\ category_label' = Head(pending).lbl
            /\ allowed' = {} /\ listed' = <<>>
            /\ to_create' = <<>> /\ to_update' = <<>> /\ to_delete_ids' = <<>>
            /\ pending' = Tail(pending)
            /\ pc' = "probe"
    /\ UNCHANGED <<priceVars, keyVars, textVars, storeVars, bi, calls, mode, configured, site,
                   idx, seen, new_links, row, all_rows, skipped, cache, csv, openai, log>>

\* a detail page of the site
Page(url, title, objektnummer, page_text, jsonld, dts, lis) ==
    [url |-> url, title |-> title, objektnummer |-> objektnummer, page_text |-> page_text,
     jsonld |-> jsonld, dts |-> dts, trs |-> <<>>, lis |-> lis,
     description |-> <<>>, ort |-> <<>>, image_url |-> <<>>]

Url3 == <<"u", "3">>

Url4 == <<"u", "4">>

Url5 == <<"u", "5">>

TextHaus == <<"H", "a", "u", "s">>

TextKaufpreis == <<"K", "a", "u", "f", "p", "r", "e", "i", "s">>

TextPrice479 == <<"4", "7", "9", ".", "0", "0", "0", ",", "0", "0", " ", "euro">>

TextHausPage ==
    <<"H", "a", "u", "s", " ", "K", "a", "u", "f", "p", "r", "e", "i", "s", " ", "4",
      "7", "9", ".", "0", "0", "0", ",", "0", "0", " ", "euro">>

TextHausVerkauft == <<"H", "a", "u", "s", " ", "v", "e", "r", "k", "a", "u", "f", "t">>

TextVerkauftesHaus ==
    <<"V", "e", "r", "k", "a", "u", "f", "t", "e", "s", " ", "H", "a", "u", "s">>

TextWohnung == <<"W", "o", "h", "n", "u", "n", "g">>

TextWohnungPage ==
    <<"W", "o", "h", "n", "u", "n", "g", " ", "K", "a", "l", "t", "m", "i", "e", "t",
      "e", " ", "a", "u", "f", " ", "A", "n", "f", "r", "a", "g", "e">>

TextKaltmieteLi ==
    <<"K", "a", "l", "t", "m", "i", "e", "t", "e", ":", " ", "a", "u", "f", " ", "A",
      "n", "f", "r", "a", "g", "e">>

TextHof == <<"H", "o", "f">>

TextNan == <<"n", "a", "n">>

TextAltbau == <<"A", "l", "t", "b", "a", "u">>

TextNotiz == <<"N", "o", "t", "i", "z">>

\* a house for sale with its price in a <dt>/<dd> pair
PageHouse ==
    Page(Url1, TextHaus, <<"1">>, TextHausPage, <<>>,
         <<[label |-> TextKaufpreis, dd |-> TextPrice479]>>, <<>>)

\* a sold house: the word "verkauft" in the title
PageSold == Page(Url2, TextHausVerkauft, <<"3">>, TextHausVerkauft, <<>>, <<>>, <<>>)

\* a sold house: "verkauft" inside a longer word of the title
PageSoldInflected ==
    Page(Url3, TextVerkauftesHaus, <<"4">>, TextVerkauftesHaus, <<>>, <<>>, <<>>)

\* a flat to let without any number on the page
PageFlat ==
    Page(Url4, TextWohnung, <<"2">>, TextWohnungPage, <<>>, <<>>, <<TextKaltmieteLi>>)

\* a farm without any number on the page whose JSON-LD offer has the price "nan"
PageFarm ==
    Page(Url5, TextHof, <<>>, TextHof,
         <<[k \in {"@type", "price"} |-> IF k = "@type" THEN PyStr(Offer) ELSE PyStr(TextNan)]>>,
         <<>>, <<>>)

PagePool == {PageHouse, PageSold, PageSoldInflected, PageFlat, PageFarm}

MaxListings == 2

\* the site: one list page with up to MaxListings detail links, in any order
Sites == {<<q>> : q \in InjectiveSeqs(PagePool, MaxListings)}

WithSummary(fields, text) == [fields EXCEPT !["Kurzbeschreibung"] = PyStr(text)]

HouseRemote == WithSummary(Row(TextHaus, Kaufen, Url1, <<"1">>, PyNum(Float(450000))), <<"k">>)

FlatRemote == Without(WithSummary(Row(TextWohnung, Mieten, Url4, <<"2">>, PyNone), <<"k">>), "Preis")

OldFlatRemote == Without(Row(TextAltbau, Mieten, Url2, <<"9">>, PyNone), "Preis")

BareRemote == Restrict(Row(TextNotiz, Kaufen, Url3, <<"7">>, PyNone), {"Titel", "Objektnummer"})

Stored(q) == [i \in 1..Len(q) |-> [id |-> i, fields |-> q[i]]]

\* the tables a run meets
RunStores ==
    { Stored(<<>>),
      Stored(<<OldFlatRemote>>),
      Stored(<<HouseRemote, FlatRemote>>),
      Stored(<<BareRemote, HouseRemote>>) }

InitRun ==
    /\ pc = "start"
    /\ mode \in Modes
    /\ configured \in BOOLEAN
    /\ site \in Sites
    /\ store \in RunStores
    /\ nextId = Len(store) + 1
    /\ idx = 0 /\ seen = {} /\ new_links = <<>> /\ row = NoRow
    /\ all_rows = <<>> /\ skipped = <<>> /\ cache = EmptyDict
    /\ pending = <<>> /\ csv = NoCsv
    /\ openai = TRUE /\ log = <<>>
    /\ scraped_rows = <<>> /\ category_label = <<>>
    /\ allowed = {} /\ listed = <<>>
    /\ to_create = <<>> /\ to_update = <<>> /\ to_delete_ids = <<>>
    /\ bi = 0 /\ calls = <<>>
    /\ PriceIdle
    /\ KeyIdle
    /\ TextIdle

Next ==
    \/ LoadCache \/ CollectDetailLinks \/ ParseDetail \/ BuildRecord \/ Split \/ Dispatch
    \/ ExistingFields \/ ListAll \/ BatchCreate \/ BatchUpdate \/ BatchDelete

Spec == InitRun /\ [][Next]_vars

(***************************************************************************)
(* Properties of run                                                       *)
(***************************************************************************)
\* the categories a mode selects
Selected(m) ==
    CASE m = "kauf"  -> {Kaufen}
      [] m = "miete" -> {Mieten}
      [] OTHER       -> {Kaufen, Mieten}

\* the natural keys the scrape produced for a category
ScrapedKeys(lbl) ==
    {unique_key(all_rows[i]) : i \in {j \in 1..Len(all_rows) : InCategory(all_rows[j], lbl)}}

NoCallFailed == \A i \in 1..Len(calls) : calls[i].ok

\* the records the table held when the run began have the ids up to this one
LastOldId == nextId - 1 - Len(Sent("create"))

\* C3: after a run with the store configured and no call refused, no record
\* that the table held before the run, of a category the mode selects, has a
\* natural key the scrape did not produce for that category, and no record
\* id was deleted twice.
C3_StoreMirrorsScrape ==
    (pc = "done" /\ configured /\ NoCallFailed) =>
        /\ \A i \in 1..Len(store) : \A lbl \in Selected(mode) :
              (store[i].id <= LastOldId /\ InCategory(store[i].fields, lbl)) =>
                  unique_key(store[i].fields) \in ScrapedKeys(lbl)
        /\ \A i, j \in 1..Len(Sent("delete")) :
              i # j => Sent("delete")[i] # Sent("delete")[j]

ListedIdsOf(lbl) ==
    {listed[i].id : i \in {j \in 1..Len(listed) : InCategory(listed[j].fields, lbl)}}

\* the calls of the sync_category call that is running
RunningCalls == {i \in 1..Len(calls) : calls[i].op \in Mutations /\ pc # "done"
                                        /\ calls[i].cat = category_label}

\* C4: every id a sync updates or deletes is the id of a listed record of
\* its category, every payload it creates has its category as Kategorie, a
\* run in mode kauf makes no call for Mieten, and no step of a sync changes
\* or removes a record of another category.
C4_NoCrossCategoryEffect ==
    /\ [](/\ \A i \in RunningCalls :
                /\ calls[i].op = "update" =>
                      \A j \in 1..Len(calls[i].items) :
                          calls[i].items[j].id \in ListedIdsOf(calls[i].cat)
                /\ calls[i].op = "delete" =>
                      \A j \in 1..Len(calls[i].items) :
                          calls[i].items[j] \in ListedIdsOf(calls[i].cat)
          /\ \A i \in 1..Len(calls) :
                calls[i].op = "create" =>
                    \A j \in 1..Len(calls[i].items) :
                        Get(calls[i].items[j], "Kategorie") = PyStr(calls[i].cat)
          /\ mode = "kauf" => \A i \in 1..Len(calls) : calls[i].cat # Mieten)
    /\ [][\A i \in 1..Len(store) :
              Get(store[i].fields, "Kategorie") # PyStr(category_label) =>
                  \E j \in 1..Len(store') : store'[j] = store[i]]_vars

\* the texts of a page a currency-shaped number could stand in
PriceKeys == {"price", "lowPrice", "highPrice"}

DictTexts(d) == {StrOf(d[k]) : k \in {x \in DOMAIN d \cap PriceKeys : d[x].t # "dict"}}

\* the price values of a JSON-LD node, as text
NodeTexts(node) ==
    DictTexts(node)
        \cup (IF "offers" \in DOMAIN node /\ node["offers"].t = "dict"
              THEN DictTexts(node["offers"].d) ELSE {})

\* the visible texts of a page a price is looked for in
PageTexts(page) ==
    {page.page_text}
        \cup {page.dts[i].dd : i \in {j \in 1..Len(page.dts) : page.dts[j].dd # NoDD}}
        \cup UNION {{page.trs[i][j] : j \in 1..Len(page.trs[i])} : i \in 1..Len(page.trs)}
        \cup {page.lis[i] : i \in 1..Len(page.lis)}

HasDigit(t) == \E i \in 1..Len(t) : t[i] \in Digits

\* no currency-shaped number exists in the page: no number before a euro
\* sign in its texts, and not one digit in the prices of its JSON-LD
NoCurrencyNumber(page) ==
    /\ \A t \in PageTexts(page) : RE_EUR_ANY_finditer(t, 1) = <<>>
    /\ \A i \in 1..Len(page.jsonld) : \A t \in NodeTexts(page.jsonld[i]) : ~HasDigit(t)

Waiting == {new_links[i] : i \in 1..Len(new_links)}

\* the detail pages parse_detail has been called on
PagesMet ==
    UNION {{site[i][j] : j \in {k \in 1..Len(site[i]) : site[i][k].url \in seen}}
              : i \in 1..Len(site)} \ Waiting

IsOfPage(fields, page) ==
    Get(fields, "Webseite") = PyStr(page.url) \/ Get(fields, "Titel") = PyStr(page.title)

\* the payloads sent for a page: the created ones, and the updates of its record
PayloadsOf(page) ==
    {Sent("create")[i] : i \in {j \in 1..Len(Sent("create")) : IsOfPage(Sent("create")[j], page)}}
        \cup {Sent("update")[i].fields : i \in {j \in 1..Len(Sent("update")) :
                 \E k \in 1..Len(store) :
                     store[k].id = Sent("update")[j].id /\ IsOfPage(store[k].fields, page)}}

\* C8: for a page without a currency-shaped number extract_price gives the
\* empty string, parse_price_to_number gives None, and no payload sent for
\* the listing has a Preis.
C8_NoNumberNoPreis ==
    \A page \in PagesMet :
        NoCurrencyNumber(page) =>
            /\ extract_price(page) = <<>>
            /\ parse_price_to_number(extract_price(page)) = NoNumber
            /\ \A payload \in PayloadsOf(page) : "Preis" \notin DOMAIN payload

\* /verkauft/i matches the title
MatchesVerkauft(titel) == HasSubstring(LowerStr(titel), Verkauft)

IsSoldRecord(fields) == Get(fields, "Titel").t = "str" /\ MatchesVerkauft(Get(fields, "Titel").s)

NoSoldIn(rows) == \A i \in 1..Len(rows) : ~IsSoldRecord(rows[i])

\* C10: no record whose title matches /verkauft/i is built, appended to the
\* rows, handed to sync_category, written to a CSV file or sent to the store.
C10_SoldListingsExcluded ==
    /\ NoSoldIn(all_rows)
    /\ NoSoldIn(scraped_rows)
    /\ \A i \in 1..Len(pending) : NoSoldIn(pending[i].rows)
    /\ NoSoldIn(csv.kauf) /\ NoSoldIn(csv.miete)
    /\ NoSoldIn(Sent("create"))

(***************************************************************************)
(* run over a site of several list pages                                   *)
(***************************************************************************)
MaxListPages == 2

Url6 == <<"u", "6">>

TextHausNeu == <<"H", "a", "u", "s", " ", "n", "e", "u">>

\* the house of PageHouse listed again: same Objektnummer, another title, url
\* and text, and no price
PageHouseRelisted == Page(Url6, TextHausNeu, <<"1">>, TextHausNeu, <<>>, <<>>, <<>>)

\* list pages: the second repeats a link of the first; the last has no link
ListPagePool ==
    { <<PageHouse, PageFlat>>, <<PageFlat, PageSold>>, <<PageHouseRelisted>>, <<>> }

RECURSIVE SeqsUpTo(_, _)
SeqsUpTo(S, n) ==
    IF n = 0 THEN {<<>>}
    ELSE LET shorter == SeqsUpTo(S, n - 1)
         IN  shorter \cup {Append(q, x) : q \in shorter, x \in S}

ScrapeSites == SeqsUpTo(ListPagePool, MaxListPages) \ {<<>>}

InitScrape ==
    /\ pc = "start"
    /\ mode \in Modes
    /\ configured \in BOOLEAN
    /\ openai \in BOOLEAN
    /\ site \in ScrapeSites
    /\ store = Stored(<<HouseRemote, OldFlatRemote>>)
    /\ nextId = Len(store) + 1
    /\ idx = 0 /\ seen = {} /\ new_links = <<>> /\ row = NoRow
    /\ all_rows = <<>> /\ skipped = <<>> /\ cache = EmptyDict
    /\ pending = <<>> /\ csv = NoCsv /\ log = <<>>
    /\ scraped_rows = <<>> /\ category_label = <<>>
    /\ allowed = {} /\ listed = <<>>
    /\ to_create = <<>> /\ to_update = <<>> /\ to_delete_ids = <<>>
    /\ bi = 0 /\ calls = <<>>
    /\ PriceIdle
    /\ KeyIdle
    /\ TextIdle

SpecScrape == InitScrape /\ [][Next]_vars

LinesOf(ev) == SelectSeq(log, LAMBDA l : l.ev = ev)

\* the loop over the list pages is left
ScrapeOver == pc \notin {"start", "scrape", "detail", "record"}

\* the detail urls of the list pages before page n
LinksBefore(n) == UNION {Urls(site[i]) : i \in 1..Min(n - 1, Len(site))}

HasRecord(url) == \E i \in 1..Len(all_rows) : all_rows[i]["Webseite"] = PyStr(url)

TitleOf(url) == (CHOOSE pg \in UNION {{site[i][j] : j \in 1..Len(site[i])} : i \in 1..Len(site)} :
                    pg.url = url).title

WasSkipped(url) ==
    LET title == TitleOf(url)
    IN  (\E i \in 1..Len(skipped) : skipped[i] = title) /\ IsSoldTitle(title)

HasFailed(url) == \E i \in 1..Len(log) : log[i].ev = "FEHLER" /\ log[i].url = url

\* the CSV files and sync_category calls of a run that came to its end
Exported ==
    /\ csv = [kauf  |-> IF mode = "miete" THEN <<>> ELSE RowsOf(all_rows, Kaufen),
              miete |-> IF mode = "kauf" THEN <<>> ELSE RowsOf(all_rows, Mieten)]
    /\ configured =>
          \A lbl \in Selected(mode) :
              RowsOf(all_rows, lbl) # <<>> =>
                  \E i \in 1..Len(calls) :
                      calls[i].op = "list" /\ calls[i].ok /\ calls[i].cat = lbl

\* C11: when the loop over the list pages is left, every link of every list
\* page before the page it stopped at has exactly one outcome (a record, a
\* skip as sold, or a logged error that left out that listing only), and it
\* stopped at a page that raised, had no link, or is past the last page;
\* after a list page raised no further page is read; and a run that ends
\* with rows has written them to the CSV files and synced each category.
C11_ErrorsSkipOneListingOrStopPaging ==
    /\ ScrapeOver =>
          /\ seen = LinksBefore(idx)
          /\ \A url \in seen :
                LET recorded == HasRecord(url)
                    sold     == WasSkipped(url)
                    failed   == HasFailed(url)
                IN  /\ recorded \/ sold \/ failed
                    /\ ~(recorded /\ failed)
                    /\ ~(recorded /\ sold)
                    /\ ~(sold /\ failed)
          /\ Len(all_rows) + Len(skipped) + Len(LinesOf("FEHLER")) = Cardinality(seen)
          /\ \/ idx > MaxPages
             \/ idx > Len(site)
             \/ site[idx] = <<>>
             \/ \E i \in 1..Len(log) : log[i].ev = "WARN" /\ log[i].n = idx
    /\ \A i \in 1..Len(log) : log[i].ev = "WARN" => (ScrapeOver /\ log[i].n = idx /\ i = Len(log))
    /\ (pc = "done" /\ all_rows # <<>>) => Exported

\* a listing of page 1 failed, a listing of page 2 was recorded, reading
\* page 3 raised, and the run ended with a batch accepted by the store
C11_Witness ==
    /\ pc = "done" /\ configured
    /\ \E i \in 1..Len(log) : log[i].ev = "FEHLER" /\ log[i].n = 1
    /\ \E i \in 1..Len(log) : log[i].ev = "WARN" /\ log[i].n = 3
    /\ \E url \in Urls(site[2]) \ Urls(site[1]) : HasRecord(url)
    /\ Sent("create") # <<>>

\* the cache holds a summary for this Objektnummer
IsCached(objektnummer) == objektnummer \in DOMAIN cache /\ cache[objektnummer] # <<>>

\* C12: a record built for a listing whose Objektnummer has a summary in the
\* cache carries that summary unchanged, whatever the listing's title, url
\* and price, and no request to the text generator is made for it; requests
\* are made only for listings without a cached summary.
C12_CachedSummaryReused ==
    /\ \A i \in 1..Len(all_rows) :
          IsCached(all_rows[i]["Objektnummer"].s) =>
              /\ all_rows[i]["Kurzbeschreibung"] = PyStr(cache[all_rows[i]["Objektnummer"].s])
              /\ \A j \in 1..Len(log) :
                    log[j].ev = "GPT" => log[j].url # all_rows[i]["Objektnummer"].s
    /\ \A j \in 1..Len(log) : log[j].ev = "GPT" => ~IsCached(log[j].url)

\* two listings with the cached Objektnummer and different titles and prices
\* got the cached summary, and a third one without it a generated summary
C12_Witness ==
    \E i, j, k \in 1..Len(all_rows) :
        /\ IsCached(all_rows[i]["Objektnummer"].s)
        /\ all_rows[j]["Objektnummer"] = all_rows[i]["Objektnummer"]
        /\ all_rows[j]["Titel"] # all_rows[i]["Titel"]
        /\ all_rows[j]["Preis"] # all_rows[i]["Preis"]
        /\ all_rows[j]["Kurzbeschreibung"] = all_rows[i]["Kurzbeschreibung"]
        /\ all_rows[i]["Kurzbeschreibung"] # PyStr(GeneratedSummary)
        /\ all_rows[k]["Kurzbeschreibung"] = PyStr(GeneratedSummary)
        /\ \E n \in 1..Len(log) : log[n].ev = "GPT" /\ log[n].url = all_rows[k]["Objektnummer"].s
        /\ \E n \in 1..Len(log) : log[n].ev = "CACHE" /\ log[n].url = all_rows[i]["Objektnummer"].s

(***************************************************************************)
(* KURZBESCHREIBUNG: normalize_kurzbeschreibung.  The letters a-umlaut and *)
(* u-umlaut and the superscript two are the characters "auml", "uuml" and  *)
(* "sup2".                                                                 *)
(***************************************************************************)
FObjekttyp == <<"O", "b", "j", "e", "k", "t", "t", "y", "p">>

FZimmer == <<"Z", "i", "m", "m", "e", "r">>

FSchlafzimmer == <<"S", "c", "h", "l", "a", "f", "z", "i", "m", "m", "e", "r">>

FWohnflaeche == <<"W", "o", "h", "n", "f", "l", "auml", "c", "h", "e">>

FGrundstueck == <<"G", "r", "u", "n", "d", "s", "t", "uuml", "c", "k">>

FBaujahr == <<"B", "a", "u", "j", "a", "h", "r">>

FKategorie == <<"K", "a", "t", "e", "g", "o", "r", "i", "e">>

FPreis == <<"P", "r", "e", "i", "s">>

FStandort == <<"S", "t", "a", "n", "d", "o", "r", "t">>

FEnergieeffizienz == <<"E", "n", "e", "r", "g", "i", "e", "e", "f", "f", "i", "z", "i", "e", "n", "z">>

FBesonderheiten == <<"B", "e", "s", "o", "n", "d", "e", "r", "h", "e", "i", "t", "e", "n">>

KURZBESCHREIBUNG_FIELDS ==
    <<FObjekttyp, FZimmer, FSchlafzimmer, FWohnflaeche, FGrundstueck, FBaujahr,
      FKategorie, FPreis, FStandort, FEnergieeffizienz, FBesonderheiten>>

\* the position of the first c in s (0: none)
FirstIndex(s, c) ==
    IF Contains(s, c) THEN CHOOSE i \in 1..Len(s) : s[i] = c /\ \A j \in 1..(i - 1) : s[j] # c
    ELSE 0

\* s.split("\n")
RECURSIVE SplitLines(_)
SplitLines(s) ==
    LET i == FirstIndex(s, "\n")
    IN  IF i = 0 THEN <<s>> ELSE <<SubSeq(s, 1, i - 1)>> \o SplitLines(Drop(s, i + 1))

\* "\n".join(lines)
RECURSIVE JoinLines(_)
JoinLines(lines) ==
    IF lines = <<>> THEN <<>>
    ELSE IF Len(lines) = 1 THEN lines[1]
    ELSE lines[1] \o <<"\n">> \o JoinLines(Tail(lines))

Dash == <<"-">>

\* the loop over the lines of the generated text: parsed, as a list of
\* [k, v] in the order the keys came
RECURSIVE ParsedLines(_)
ParsedLines(lines) ==
    IF lines = <<>> THEN <<>>
    ELSE LET rest  == ParsedLines(SubSeq(lines, 1, Len(lines) - 1))
             line  == lines[Len(lines)]
             colon == FirstIndex(line, ":")
             key   == Strip(SubSeq(line, 1, colon - 1))
             val   == Strip(Drop(line, colon + 1))
         IN  IF colon # 0 /\ val # <<>> /\ val # Dash
             THEN DictPut(rest, key, val)
             ELSE rest

\* scrape_mapping, in its order
scrape_mapping ==
    << [field |-> FZimmer,      scrape_key |-> "zimmer"],
       [field |-> FWohnflaeche, scrape_key |-> "wohnflaeche"],
       [field |-> FGrundstueck, scrape_key |-> "grundstueck"],
       [field |-> FBaujahr,     scrape_key |-> "baujahr"],
       [field |-> FKategorie,   scrape_key |-> "kategorie"],
       [field |-> FPreis,       scrape_key |-> "preis"],
       [field |-> FStandort,    scrape_key |-> "standort"] >>

SquareMetres == <<"m", "sup2">>

\* f"{int(preis_num):,} <euro>".replace(",", "."), or str(scrape_value) when
\* float() or int() raises
ScrapedPreis(scrape_value) ==
    LET text == Strip(Replace(Replace(Replace(scrape_value, ".", <<>>), ",", <<".">>),
                              "euro", <<>>))
        preis_num == FloatOfStr(text)
    IN  IF IsFinite(preis_num)
        THEN Grouped(preis_num.m \div Pow10(preis_num.e), ".") \o <<" ", "euro">>
        ELSE scrape_value

\* the value the loop over scrape_mapping stores for a field
ScrapedValue(field, scrape_value) ==
    IF field = FPreis THEN ScrapedPreis(scrape_value)
    ELSE IF field \in {FWohnflaeche, FGrundstueck} /\ ~HasSubstring(scrape_value, SquareMetres)
    THEN scrape_value \o <<" ">> \o SquareMetres
    ELSE scrape_value

\* the loop over scrape_mapping, from its entry i on
RECURSIVE FilledFrom(_, _, _)
FilledFrom(parsed, data, i) ==
    IF i > Len(scrape_mapping) THEN parsed
    ELSE LET field        == scrape_mapping[i].field
             scrape_value == IF scrape_mapping[i].scrape_key \in DOMAIN data
                             THEN data[scrape_mapping[i].scrape_key] ELSE <<>>
             missing      == \/ ~HasKey(parsed, field)
                             \/ Lookup(parsed, field) = <<>>
                             \/ Lookup(parsed, field) = Dash
         IN  FilledFrom(IF missing /\ scrape_value # <<>>
                        THEN DictPut(parsed, field, ScrapedValue(field, scrape_value))
                        ELSE parsed,
                        data, i + 1)

\* one line of the output
OutputLine(parsed, field) ==
    LET val == IF HasKey(parsed, field) THEN Lookup(parsed, field) ELSE Dash
    IN  field \o <<":", " ">> \o (IF Strip(val) = <<>> THEN Dash ELSE val)

normalize_kurzbeschreibung(gpt, data) ==
    LET parsed == FilledFrom(ParsedLines(SplitLines(Strip(gpt))), data, 1)
    IN  JoinLines([i \in 1..Len(KURZBESCHREIBUNG_FIELDS) |->
                      OutputLine(parsed, KURZBESCHREIBUNG_FIELDS[i])])

(***************************************************************************)
(* normalize_kurzbeschreibung on generated texts and scraped data          *)
(***************************************************************************)
GptNone == <<>>

GptDash ==
    <<"Z", "i", "m", "m", "e", "r", ":", " ", "3", "\n", "P", "r", "e", "i", "s", ":", " ",
      "-">>

GptTwice ==
    <<"O", "b", "j", "e", "k", "t", "t", "y", "p", ":", " ", "H", "a", "u", "s", "\n", "Z",
      "i", "m", "m", "e", "r", ":", " ", "3", "\n", "Z", "i", "m", "m", "e", "r", ":", " ",
      "4">>

GptOther ==
    <<"F", "o", "o", ":", " ", "b", "a", "r", "\n", "S", "t", "a", "n", "d", "o", "r", "t",
      ":", " ", " ">>

GptNoColon == <<"Z", "i", "m", "m", "e", "r", " ", "3">>

GptColons ==
    <<"P", "r", "e", "i", "s", ":", " ", "1", ":", " ", "2", " ", "euro">>

GptBlanks ==
    <<" ", "B", "a", "u", "j", "a", "h", "r", " ", ":", " ", "1", "9", "9", "0", " ", "\n">>

GptLowerCase == <<"z", "i", "m", "m", "e", "r", ":", " ", "3">>

GptBlankLine ==
    <<"W", "o", "h", "n", "f", "l", "auml", "c", "h", "e", ":", " ", "9", "0", " ", "m",
      "sup2", "\n", "\n", "G", "r", "u", "n", "d", "s", "t", "uuml", "c", "k", ":", " ", "-">>

GptOutputs ==
    {GptNone, GptDash, GptTwice, GptOther, GptNoColon,
     GptColons, GptBlanks, GptLowerCase, GptBlankLine}

DataNone == EmptyDict

DataZimmer ==
    [k \in {"zimmer"} |->
        <<"5">>]

DataPreis ==
    [k \in {"preis"} |->
        <<"4", "7", "9", ".", "0", "0", "0", " ", "euro">>]

DataPreisNan ==
    [k \in {"preis"} |->
        <<"n", "a", "n", " ", "euro">>]

DataAreas ==
    [k \in {"grundstueck", "wohnflaeche"} |->
        IF k = "grundstueck" THEN <<"5", "0", "0", " ", "m", "sup2">>
        ELSE <<"1", "2", "0">>]

DataOrtTwoLines ==
    [k \in {"standort"} |->
        <<"1", "2", "3", "4", "5", " ", "A", "\n", "B", "e", "r", "g">>]

DataPlace ==
    [k \in {"baujahr", "kategorie", "standort"} |->
        IF k = "baujahr" THEN <<"1", "9", "9", "0">>
        ELSE IF k = "kategorie" THEN <<"K", "a", "u", "f", "e", "n">>
        ELSE <<"3", "5", "3", "9", "0", " ", "L", "i", "c", "h">>]

DataBlank ==
    [k \in {"zimmer"} |->
        <<" ">>]

DataPreisCents ==
    [k \in {"preis"} |->
        <<"1", ".", "5", "0", "0", ",", "5", "0", " ", "euro">>]

DataPreisText ==
    [k \in {"preis"} |->
        <<"a", "u", "f", " ", "A", "n", "f", "r", "a", "g", "e">>]

ScrapedData ==
    {DataNone, DataZimmer, DataPreis, DataPreisNan, DataAreas,
     DataOrtTwoLines, DataPlace, DataBlank, DataPreisCents, DataPreisText}

InitNormalize ==
    /\ pc = "normalize"
    /\ gpt_output \in GptOutputs
    /\ scraped_data \in ScrapedData
    /\ kurzbeschreibung = NotRun
    /\ DescIdle
    /\ PriceIdle
    /\ KeyIdle
    /\ SyncIdle
    /\ RunIdle

NormalizeKurzbeschreibung ==
    /\ pc = "normalize"
    /\ kurzbeschreibung = NotRun
    /\ kurzbeschreibung' = normalize_kurzbeschreibung(gpt_output, scraped_data)
    /\ UNCHANGED <<pc, gpt_output, scraped_data, descVars, priceVars, keyVars, syncVars, runVars>>

NextNormalize == NormalizeKurzbeschreibung

SpecNormalize == InitNormalize /\ [][NextNormalize]_vars

\* the generated text gives the field: a line "field: value" whose value is
\* neither empty nor "-"
GivenIn(gpt, field) ==
    \E i \in 1..Len(SplitLines(Strip(gpt))) :
        LET line  == SplitLines(Strip(gpt))[i]
            colon == FirstIndex(line, ":")
        IN  /\ colon # 0
            /\ Strip(SubSeq(line, 1, colon - 1)) = field
            /\ Strip(Drop(line, colon + 1)) \notin {<<>>, Dash}

\* the scraped value for the field, empty when there is none
ScrapedFor(data, field) ==
    IF \E i \in 1..Len(scrape_mapping) :
           scrape_mapping[i].field = field /\ scrape_mapping[i].scrape_key \in DOMAIN data
    THEN data[scrape_mapping[CHOOSE i \in 1..Len(scrape_mapping) :
                                 scrape_mapping[i].field = field].scrape_key]
    ELSE <<>>

OutputLines == SplitLines(kurzbeschreibung)

FieldLabel(i) == KURZBESCHREIBUNG_FIELDS[i] \o <<":", " ">>

\* C13: the text normalize_kurzbeschreibung returns has exactly 11 lines,
\* line i is the i-th field of KURZBESCHREIBUNG_FIELDS with its value, and a
\* field the generated text does not give has a value made from the scraped
\* value when there is one and the value "-" when there is none.
C13_ElevenLabeledFields ==
    (pc = "normalize" /\ kurzbeschreibung # NotRun) =>
        /\ Len(OutputLines) = Len(KURZBESCHREIBUNG_FIELDS)
        /\ \A i \in 1..Len(KURZBESCHREIBUNG_FIELDS) :
              /\ StartsAt(OutputLines[i], 1, FieldLabel(i))
              /\ ~GivenIn(gpt_output, KURZBESCHREIBUNG_FIELDS[i]) =>
                    LET scraped == ScrapedFor(scraped_data, KURZBESCHREIBUNG_FIELDS[i])
                        given   == Drop(OutputLines[i], Len(FieldLabel(i)) + 1)
                    IN  IF Strip(scraped) = <<>> THEN given = Dash
                        ELSE /\ given # Dash
                             /\ KURZBESCHREIBUNG_FIELDS[i] # FPreis => HasSubstring(given, scraped)

(***************************************************************************)
(* BESCHREIBUNG: _norm, _clean_desc_lines, extract_description.  A document *)
(* is what the selectors of extract_description find in it: its scopes, in *)
(* a scope the panels "tab0" and "active" and the .v-card__text boxes, in  *)
(* a panel its boxes, in a box its heading, its <p> and its <li> texts.    *)
(* The letter e-acute and the bullet are the characters "eacute" and       *)
(* "bullet".                                                               *)
(***************************************************************************)
\* re.sub(r"\s{2,}", " ", s): every run of two or more blanks becomes one space
RECURSIVE CollapseBlanks(_)
CollapseBlanks(s) ==
    IF s = <<>> THEN <<>>
    ELSE IF Len(s) >= 2 /\ IsSpace(s[1]) /\ IsSpace(s[2])
    THEN <<" ">> \o CollapseBlanks(LStrip(s))
    ELSE <<Head(s)>> \o CollapseBlanks(Tail(s))

_norm(s) == CollapseBlanks(Strip(s))

STOP_STRINGS ==
    << <<"I", "h", "r", "e", " ", "A", "n", "f", "r", "a", "g", "e">>,
       <<"E", "x", "p", "o", "s", "eacute", " ", "a", "n", "f", "o", "r", "d", "e", "r", "n">>,
       <<"N", "e", "u", "e", "s", "t", "e", " ", "I", "m", "m", "o", "b", "i", "l", "i", "e",
         "n">>,
       <<"T", "e", "i", "l", "e", "n", " ", "a", "u", "f">>,
       <<"D", "a", "t", "e", "n", "s", "c", "h", "u", "t", "z">>,
       <<"I", "m", "p", "r", "e", "s", "s", "u", "m">>,
       <<"d", "e", "s", "i", "g", "n", "e", "d", " ", "b", "y", " ", "w", "a", "v", "e", "p",
         "o", "i", "n", "t">>,
       <<"A", "n", "s", "p", "r", "e", "c", "h", "p", "a", "r", "t", "n", "e", "r">>,
       <<"K", "o", "n", "t", "a", "k", "t", "i", "e", "r", "e", "n", " ", "S", "i", "e", " ",
         "u", "n", "s">>,
       <<"Z", "u", "r", " ", "O", "b", "j", "e", "k", "t", "a", "n", "f", "r", "a", "g", "e">>,
       <<"m", "s", "i", "-", "h", "e", "s", "s", "e", "n", ".", "d", "e">> >>

\* str.lower() for the letters of the texts drawn here
LowerText(s) == [i \in 1..Len(s) |-> IF s[i] = "Eacute" THEN "eacute" ELSE LowerChar(s[i])]

\* the stop filter without lower(): any(s in t for s in STOP_STRINGS)
HasStopString_case_sensitive(t) ==
    \E i \in 1..Len(STOP_STRINGS) : HasSubstring(t, STOP_STRINGS[i])

\* any(s.lower() in t.lower() for s in STOP_STRINGS)
HasStopString(t) ==
    \E i \in 1..Len(STOP_STRINGS) : HasSubstring(LowerText(t), LowerText(STOP_STRINGS[i]))

PhoneSeparators == {" ", "\n", "\t", "nbsp", "nnbsp", "thin", "/", ".", "-"}

AllIn(s, from, to, chars) == \A i \in from..to : s[i] \in chars

\* RE_PHONE matches s[p .. e-1]: an optional prefix (an optional plus, 1 to 3
\* digits, an optional separator), 2 or 3 digits, then 6 or more digits and
\* separators, between two word boundaries
PhoneAt(s, p, e) ==
    /\ WordBoundary(s, p)
    /\ WordBoundary(s, e)
    /\ \E plus \in 0..1, pre \in 0..3, sep \in 0..1, core \in 2..3 :
          LET q == p + plus + pre + sep
          IN  /\ pre = 0 => (plus = 0 /\ sep = 0)
              /\ q + core + 6 <= e
              /\ plus = 1 => s[p] = "+"
              /\ AllIn(s, p + plus, p + plus + pre - 1, Digits)
              /\ sep = 1 => s[p + plus + pre] \in PhoneSeparators
              /\ AllIn(s, q, q + core - 1, Digits)
              /\ AllIn(s, q + core, e - 1, Digits \cup PhoneSeparators)

RE_PHONE_search(s) == \E p \in 1..Len(s) : \E e \in (p + 8)..(Len(s) + 1) : PhoneAt(s, p, e)

Letters == Lower \cup Upper

\* RE_EMAIL.search(s): [A-Za-z0-9._%+-]+@[A-Za-z0-9.-]+\.[A-Za-z]{2,}
RE_EMAIL_search(s) ==
    \E a \in 2..Len(s) :
        /\ s[a] = "@"
        /\ s[a - 1] \in Letters \cup Digits \cup {".", "_", "%", "+", "-"}
        /\ \E d \in (a + 2)..(Len(s) - 2) :
              /\ s[d] = "."
              /\ AllIn(s, a + 1, d - 1, Letters \cup Digits \cup {".", "-"})
              /\ s[d + 1] \in Letters
              /\ s[d + 2] \in Letters

InSeq(x, q) == \E i \in 1..Len(q) : q[i] = x

\* the loop of _clean_desc_lines over the lines still to read
RECURSIVE CleanedFrom(_, _)
CleanedFrom(lines, out) ==
    IF lines = <<>> THEN out
    ELSE LET t == _norm(Head(lines))
         IN  CleanedFrom(Tail(lines),
                         IF \/ t = <<>>
                            \/ HasStopString(t)
                            \/ RE_PHONE_search(t) \/ RE_EMAIL_search(t)
                            \/ InSeq(t, out)
                         THEN out ELSE Append(out, t))

_clean_desc_lines(lines) == CleanedFrom(lines, <<>>)

\* what select_one gives when nothing matches
NoNode == [id |-> 0]

NoBox == [ps |-> <<"no box">>]

NoHeading == <<"no heading">>

\* a container: the text of its first "p.h4, h4" or NoHeading, its <p> in
\* document order, each with its text and whether it has the class h4, and
\* the texts of its list items
Box(heading, ps, lis) == [heading |-> heading, ps |-> ps, lis |-> lis]

\* a node: its first ".v-card .v-card__text", its first ".v-card__text", and
\* the node as a container
Node(id, card, text, own) == [id |-> id, card |-> card, text |-> text, own |-> own]

\* _find_expose_scope: ".sw-yframe .sw-vframe .v-expose", else ".v-expose",
\* else the document
_find_expose_scope(soup) ==
    IF soup.nested # NoNode THEN soup.nested
    ELSE IF soup.expose # NoNode THEN soup.expose
    ELSE soup.whole

Beschreibung == <<"b", "e", "s", "c", "h", "r", "e", "i", "b", "u", "n", "g">>

\* the boxes of the scope whose heading is "beschreibung"
HeadedBoxes(root) ==
    SelectSeq(root.boxes,
              LAMBDA b : b.own.heading # NoHeading
                         /\ LowerText(_norm(b.own.heading)) = Beschreibung)

\* candidates of extract_description
Candidates(root) ==
    LET byId   == IF root.tab0 # NoNode THEN <<root.tab0>> ELSE <<>>
        panels == IF root.active # NoNode /\ ~InSeq(root.active, byId)
                  THEN Append(byId, root.active) ELSE byId
    IN  IF panels # <<>> THEN panels ELSE HeadedBoxes(root)

\* node.select_one(".v-card .v-card__text") or node.select_one(".v-card__text") or node
BoxOf(node) ==
    IF node.card # NoBox THEN node.card
    ELSE IF node.text # NoBox THEN node.text
    ELSE node.own

NonEmpty(q) == SelectSeq(q, LAMBDA t : t # <<>>)

\* the lines collected from a box, before _clean_desc_lines
LinesOfBox(box) ==
    LET paras == SelectSeq(box.ps, LAMBDA p : ~p.h4)
    IN  NonEmpty([i \in 1..Len(paras) |-> _norm(paras[i].text)])
        \o [i \in 1..Len(NonEmpty([j \in 1..Len(box.lis) |-> _norm(box.lis[j])])) |->
               <<"bullet", " ">> \o NonEmpty([j \in 1..Len(box.lis) |-> _norm(box.lis[j])])[i]]

MaxDescription == 6000

\* s[:n]
Take(s, n) == SubSeq(s, 1, Min(n, Len(s)))

\* the loop over the candidates
RECURSIVE DescriptionOf(_)
DescriptionOf(candidates) ==
    IF candidates = <<>> THEN <<>>
    ELSE LET lines == _clean_desc_lines(LinesOfBox(BoxOf(Head(candidates))))
         IN  IF lines # <<>> THEN Take(JoinLines(lines), MaxDescription)
             ELSE DescriptionOf(Tail(candidates))

extract_description(soup) == DescriptionOf(Candidates(_find_expose_scope(soup)))

(***************************************************************************)
(* extract_description on documents                                        *)
(***************************************************************************)
LineHaus == <<"H", "a", "u", "s">>

LineHell == <<"H", "e", "l", "l">>

LinePadded == <<" ", " ", "H", "e", "l", "l", " ", " ", " ", "H", "a", "u", "s", " ">>

LineBreak == <<"H", "e", "l", "l", "\n", "H", "a", "u", "s">>

LineStop == <<"I", "H", "R", "E", " ", "A", "N", "F", "R", "A", "G", "E">>

LineStopInside == <<"x", " ", "E", "x", "p", "o", "s", "eacute", " ", "A", "N", "F", "O", "R",
  "D", "E", "R", "N">>

LineStopBreak == <<"I", "h", "r", "e", "\n", "A", "n", "f", "r", "a", "g", "e">>

LinePhone == <<"T", "e", "l", " ", "0", "6", "0", "3", "1", " ", "1", "2", "3", "4", "5", "6">>

LineMail == <<"a", "@", "b", ".", "d", "e">>

LineBlank == <<" ">>

LineHof == <<"H", "o", "f">>

HeadBeschreibung == <<" ", "B", "E", "S", "C", "H", "R", "E", "I", "B", "U", "N", "G", " ">>

HeadLage == <<"L", "a", "g", "e">>

Para(text) == [text |-> text, h4 |-> FALSE]

ParaH4(text) == [text |-> text, h4 |-> TRUE]

BoxPlain == Box(NoHeading, <<Para(LineHaus), Para(LineHell)>>, <<LineHaus>>)

BoxRepeats ==
    Box(NoHeading, <<Para(LineHaus), Para(LineHaus \o <<" ">>), Para(LinePadded)>>,
        <<LineHell, LineHell>>)

BoxBreak == Box(NoHeading, <<Para(LineHaus), Para(LineBreak)>>, <<>>)

BoxNoise ==
    Box(NoHeading,
        <<Para(LineStop), Para(LinePhone), Para(LineMail), Para(LineBlank),
          Para(LineStopInside)>>,
        <<LineStop>>)

BoxMixed == Box(NoHeading, <<Para(LineStop), Para(LineHell), Para(LineStopBreak)>>,
  <<LineMail>>)

BoxHeaded == Box(HeadBeschreibung, <<ParaH4(HeadBeschreibung), Para(LineHell)>>, <<>>)

BoxHeadedNoise == Box(HeadBeschreibung, <<ParaH4(HeadBeschreibung), Para(LineStop)>>, <<>>)

BoxLage == Box(HeadLage, <<ParaH4(HeadLage), Para(LineHaus)>>, <<>>)

BoxHof == Box(NoHeading, <<Para(LineHof)>>, <<>>)

PanelBoxes == {BoxPlain, BoxRepeats, BoxBreak, BoxNoise, BoxMixed}

\* a panel with the box in its ".v-card .v-card__text"
Panel(id, box) == Node(id, box, BoxHof, BoxHof)

Tab0Nodes ==
    {NoNode, Node(1, NoBox, BoxPlain, BoxHof), Node(1, NoBox, NoBox, BoxPlain)}
        \cup {Panel(1, b) : b \in PanelBoxes}

ActiveNodes == {NoNode} \cup {Panel(2, b) : b \in PanelBoxes}

Plain(id, box) == Node(id, NoBox, NoBox, box)

BoxLists ==
    { <<>>, <<Plain(3, BoxHeaded)>>,
      <<Plain(3, BoxLage), Plain(4, BoxHeadedNoise), Plain(5, BoxHeaded)>> }

Scope(tab0, active, boxes) == [id |-> 9, tab0 |-> tab0, active |-> active, boxes |-> boxes]

\* the scopes: the active panel is the tab0 panel, or another one, or none
Scopes ==
    {Scope(t, a, b) : t \in Tab0Nodes, a \in ActiveNodes, b \in BoxLists}
        \cup {Scope(t, t, b) : t \in Tab0Nodes, b \in BoxLists}

\* a scope that must not be read
ScopeHof == Scope(Panel(1, BoxHof), NoNode, <<>>)

Document(nested, expose, whole) == [nested |-> nested, expose |-> expose, whole |-> whole]

Documents ==
    {Document(sc, ScopeHof, ScopeHof) : sc \in Scopes}
        \cup {Document(NoNode, sc, ScopeHof) : sc \in Scopes}
        \cup {Document(NoNode, NoNode, sc) : sc \in Scopes}

InitExtract ==
    /\ pc = "extract"
    /\ main_soup \in Documents
    /\ frames = <<>> /\ sw_links = <<>> /\ tried = <<>>
    /\ description = NotRun
    /\ NormalizeIdle
    /\ PriceIdle
    /\ KeyIdle
    /\ SyncIdle
    /\ RunIdle

ExtractDescription ==
    /\ pc = "extract"
    /\ description = NotRun
    /\ description' = extract_description(main_soup)
    /\ UNCHANGED <<pc, main_soup, frames, sw_links, tried, gpt_output, scraped_data,
                   kurzbeschreibung, priceVars, keyVars, syncVars, runVars>>

NextExtract == ExtractDescription

SpecExtract == InitExtract /\ [][NextExtract]_vars

Extracted == pc = "extract" /\ description # NotRun

\* C14: no phrase of STOP_STRINGS is a substring of the text
\* extract_description returns, whatever the case of the letters.
C14_NoStopPhraseInDescription ==
    Extracted =>
        \A i \in 1..Len(STOP_STRINGS) :
            ~HasSubstring(LowerText(description), LowerText(STOP_STRINGS[i]))

\* the box the description was taken from has a line with a stop phrase in
\* other letters than those of STOP_STRINGS, and a line that was kept
C14_Witness ==
    /\ Extracted
    /\ description # <<>>
    /\ \E i \in 1..Len(Candidates(_find_expose_scope(main_soup))) :
          LET lines == LinesOfBox(BoxOf(Candidates(_find_expose_scope(main_soup))[i]))
          IN  /\ _clean_desc_lines(lines) # <<>>
              /\ \E j \in 1..Len(lines) :
                    /\ HasStopString(lines[j])
                    /\ \A k \in 1..Len(STOP_STRINGS) : ~HasSubstring(lines[j], STOP_STRINGS[k])


\* the lines of a returned description
DescriptionLines == IF description = <<>> THEN <<>> ELSE SplitLines(description)

\* C15: the text extract_description returns has no two equal lines, and
\* _clean_desc_lines applied to its lines gives the same lines back.
C15_NoEqualLinesAndFilterFixpoint ==
    Extracted =>
        /\ \A i, j \in 1..Len(DescriptionLines) :
              DescriptionLines[i] = DescriptionLines[j] => i = j
        /\ _clean_desc_lines(DescriptionLines) = DescriptionLines

\* the panels of a scope in the order of preference: the panel with the id
\* tab-0, the active panel, the boxes headed "Beschreibung"
PanelsByPreference(root) ==
    (IF root.tab0 # NoNode THEN <<root.tab0>> ELSE <<>>)
        \o (IF root.active # NoNode /\ root.active # root.tab0 THEN <<root.active>> ELSE <<>>)
        \o HeadedBoxes(root)

SurvivingLines(node) == _clean_desc_lines(LinesOfBox(BoxOf(node)))

\* C18: when a panel of the scope (tab-0, active, headed "Beschreibung") has
\* lines that survive the filter, extract_description returns the lines of
\* the most preferred such panel, which is not the empty text.
C18_MostPreferredPanelWithLines ==
    Extracted =>
        LET panels == PanelsByPreference(_find_expose_scope(main_soup))
        IN  \A i \in 1..Len(panels) :
                (/\ SurvivingLines(panels[i]) # <<>>
                 /\ \A j \in 1..(i - 1) : SurvivingLines(panels[j]) = <<>>)
                    => /\ description = JoinLines(SurvivingLines(panels[i]))
                       /\ description # <<>>

(***************************************************************************)
(* get_description: the main document, the captured frames, the linked     *)
(* exposé pages                                                            *)
(***************************************************************************)
MaxFrames == 2

MaxLinks == 2

\* a document with one panel #tab-0 that holds the box
DocOf(box) == Document(NoNode, NoNode, Scope(Panel(1, box), NoNode, <<>>))

DocNothing == Document(NoNode, NoNode, Scope(NoNode, NoNode, <<>>))

\* a captured frame: html that BeautifulSoup and extract_description read,
\* or html on which one of them raises
Frame(soup) == [reads |-> TRUE, soup |-> soup]

FrameBroken == [reads |-> FALSE, soup |-> DocNothing]

FramePool == {FrameBroken, Frame(DocOf(BoxNoise)), Frame(DocOf(BoxHof))}

\* what requests.get gives for a linked page: an exception, an answer that
\* is not ok or has no text, or a page
LinkRaises == [answer |-> "raises", soup |-> DocNothing]

LinkRefused == [answer |-> "refused", soup |-> DocNothing]

LinkPage(soup) == [answer |-> "page", soup |-> soup]

LinkPool == {LinkRaises, LinkRefused, LinkPage(DocOf(BoxNoise)), LinkPage(DocOf(BoxBreak))}

MainPool == {DocNothing, DocOf(BoxNoise), DocOf(BoxPlain)}

\* frames is FRAME_HTMLS.get(detail_url) or []; sw_links is the list
\* _find_screenwork_links(main_soup) gives, in the order of the loop
InitDescribe ==
    /\ pc = "describe"
    /\ main_soup \in MainPool
    /\ frames \in SeqsUpTo(FramePool, MaxFrames)
    /\ sw_links \in SeqsUpTo(LinkPool, MaxLinks)
    /\ tried = <<>>
    /\ description = NotRun
    /\ NormalizeIdle
    /\ PriceIdle
    /\ KeyIdle
    /\ SyncIdle
    /\ RunIdle

NoText == <<"no text">>

Attempt(src, n, desc) == [src |-> src, n |-> n, desc |-> desc]

AttemptsOf(src) == Len(SelectSeq(tried, LAMBDA a : a.src = src))

DescribeRest == <<main_soup, frames, sw_links, gpt_output, scraped_data, kurzbeschreibung,
                  priceVars, keyVars, syncVars, runVars>>

\* desc = extract_description(main_soup); if desc: return desc
DescribeMain ==
    /\ pc = "describe"
    /\ LET desc == extract_description(main_soup)
       IN  /\ tried' = <<Attempt("main", 0, desc)>>
           /\ IF desc # <<>>
              THEN description' = desc /\ pc' = "described"
              ELSE description' = description /\ pc' = "frames"
    /\ UNCHANGED DescribeRest

\* one turn of the loop over the frames where an exception ends the call
DescribeFrame_aborts ==
    /\ pc = "frames"
    /\ AttemptsOf("frame") < Len(frames)
    /\ LET i     == AttemptsOf("frame") + 1
           frame == frames[i]
           desc  == IF frame.reads THEN extract_description(frame.soup) ELSE NoText
       IN  /\ tried' = Append(tried, Attempt("frame", i, desc))
           /\ IF frame.reads /\ desc # <<>>
              THEN description' = desc /\ pc' = "described"
              ELSE IF ~frame.reads
              THEN description' = <<>> /\ pc' = "described"
              ELSE description' = description /\ pc' = pc
    /\ UNCHANGED DescribeRest

\* one turn of the loop over the frames: try: s = BeautifulSoup(html);
\* desc = extract_description(s); if desc: return desc; except: pass
DescribeFrame ==
    /\ pc = "frames"
    /\ AttemptsOf("frame") < Len(frames)
    /\ LET i     == AttemptsOf("frame") + 1
           frame == frames[i]
           desc  == IF frame.reads THEN extract_description(frame.soup) ELSE NoText
       IN  /\ tried' = Append(tried, Attempt("frame", i, desc))
           /\ IF frame.reads /\ desc # <<>>
              THEN description' = desc /\ pc' = "described"
              ELSE description' = description /\ pc' = pc
    /\ UNCHANGED DescribeRest

\* the loop over the frames is over (or there was no frame)
FramesDone ==
    /\ pc = "frames"
    /\ AttemptsOf("frame") = Len(frames)
    /\ pc' = "links"
    /\ UNCHANGED <<tried, description, DescribeRest>>

\* one turn of the loop over the linked pages: try: r = requests.get(...);
\* if r.ok and r.text: desc = extract_description(s2); if desc: return desc;
\* except: continue
DescribeLink ==
    /\ pc = "links"
    /\ AttemptsOf("link") < Len(sw_links)
    /\ LET j    == AttemptsOf("link") + 1
           link == sw_links[j]
           desc == IF link.answer = "page" THEN extract_description(link.soup) ELSE NoText
       IN  /\ tried' = Append(tried, Attempt("link", j, desc))
           /\ IF link.answer = "page" /\ desc # <<>>
              THEN description' = desc /\ pc' = "described"
              ELSE description' = description /\ pc' = pc
    /\ UNCHANGED DescribeRest

\* return "" after the last linked page
DescribeNothing ==
    /\ pc = "links"
    /\ AttemptsOf("link") = Len(sw_links)
    /\ description' = <<>>
    /\ pc' = "described"
    /\ UNCHANGED <<tried, DescribeRest>>

NextDescribe ==
    \/ DescribeMain
    \/ DescribeFrame
    \/ FramesDone
    \/ DescribeLink
    \/ DescribeNothing

SpecDescribe == InitDescribe /\ [][NextDescribe]_vars

Described == pc = "described"

\* the sources of a call in the order of the claim, each with the text that
\* extract_description finds in it (none when the source cannot be read)
TextIn(readable, soup) == IF readable THEN extract_description(soup) ELSE <<>>

SourcesInOrder ==
    <<Attempt("main", 0, extract_description(main_soup))>>
        \o [i \in 1..Len(frames) |->
               Attempt("frame", i, TextIn(frames[i].reads, frames[i].soup))]
        \o [j \in 1..Len(sw_links) |->
               Attempt("link", j, TextIn(sw_links[j].answer = "page", sw_links[j].soup))]

FirstWithText(sources) ==
    IF \E k \in 1..Len(sources) : sources[k].desc # <<>>
    THEN CHOOSE k \in 1..Len(sources) :
             /\ sources[k].desc # <<>>
             /\ \A l \in 1..(k - 1) : sources[l].desc = <<>>
    ELSE 0

\* C17: get_description returns the text of the first source that has one,
\* in the order main document, frames in the order captured, linked pages,
\* having tried exactly the sources up to that one; it returns the empty
\* text only when no source has a text, and then every source was tried,
\* those after a frame or a fetch that raised included.
C17_FirstSourceWithTextInOrder ==
    Described =>
        LET sources == SourcesInOrder
            first   == FirstWithText(sources)
            last    == IF first = 0 THEN Len(sources) ELSE first
        IN  /\ description = (IF first = 0 THEN <<>> ELSE sources[first].desc)
            /\ Len(tried) = last
            /\ \A k \in 1..last : tried[k].src = sources[k].src /\ tried[k].n = sources[k].n

\* a text found in a linked page after a frame that raised and a fetch that
\* raised
C17_Witness ==
    /\ Described
    /\ description # <<>>
    /\ tried[Len(tried)].src = "link"
    /\ \E k \in 1..Len(tried) : tried[k].src = "frame" /\ ~frames[tried[k].n].reads
    /\ \E k \in 1..Len(tried) : tried[k].src = "link" /\ sw_links[tried[k].n].answer = "raises"

(***************************************************************************)
(* extract_price on pages                                                  *)
(***************************************************************************)
TextNoAmount == <<"H", "a", "u", "s", " ", "a", "u", "f", " ", "A", "n", "f", "r", "a", "g",
  "e">>

TextTwoLarge == <<"H", "a", "u", "s", " ", "5", " ", "Z", "i", "m", "m", "e", "r", " ", "1",
  "2", "0", ".", "0", "0", "0", " ", "euro", " ", "3", "0", "0", ".", "0", "0", "0", " ",
  "euro">>

TextSmallOnly == <<"H", "o", "f", " ", "8", "5", "0", " ", "euro", " ", "9", "0", "0", " ",
  "euro", " ", "1", "2", " ", "euro">>

TextBelowTop == <<"9", ".", "9", "9", "9", ",", "9", "9", " ", "euro", " ", "5", "0", "0", " ",
  "euro">>

TextAufAnfrage == <<"a", "u", "f", " ", "A", "n", "f", "r", "a", "g", "e">>

TextPreis == <<"P", "r", "e", "i", "s">>

TextRent1200 == <<"1", ".", "2", "0", "0", " ", "euro">>

TextKaltmiete850 == <<"K", "a", "l", "t", "m", "i", "e", "t", "e", ":", " ", "8", "5", "0">>

TextAbc == <<"a", "b", "c">>

\* JSON-LD nodes: an offer with a price, a node whose price is no number
LdOffer ==
    [k \in {"@type", "price"} |-> IF k = "@type" THEN PyStr(Offer) ELSE PyInt(250000)]

LdNoNumber == [k \in {"price"} |-> PyStr(TextAbc)]

JsonldPool == {<<>>, <<LdOffer>>, <<LdNoNumber>>, <<LdNoNumber, LdOffer>>}

DtsPool ==
    { <<>>, <<[label |-> TextKaufpreis, dd |-> TextPrice479]>>,
      <<[label |-> TextKaufpreis, dd |-> TextAufAnfrage]>> }

TrsPool == {<<>>, <<<<TextPreis, TextRent1200>>>>}

LisPool == {<<>>, <<TextKaltmiete850>>}

PageTextPool == {TextNoAmount, TextTwoLarge, TextSmallOnly, TextBelowTop}

PricePages ==
    { [Page(Url1, TextHaus, <<"1">>, text, ld, dts, lis) EXCEPT !.trs = trs] :
        text \in PageTextPool, ld \in JsonldPool, dts \in DtsPool, trs \in TrsPool,
        lis \in LisPool }

\* main_soup is the page handed to extract_price, label the text it returns
InitPrice ==
    /\ pc = "price"
    /\ main_soup \in PricePages
    /\ label = NotRun
    /\ cleaned = <<>> /\ value = NoNumber
    /\ frames = <<>> /\ sw_links = <<>> /\ tried = <<>> /\ description = <<>>
    /\ NormalizeIdle
    /\ KeyIdle
    /\ SyncIdle
    /\ RunIdle

ExtractPrice ==
    /\ pc = "price"
    /\ label = NotRun
    /\ label' = extract_price(main_soup)
    /\ UNCHANGED <<pc, cleaned, value, keyVars, textVars, syncVars, runVars>>

NextPrice == ExtractPrice

SpecPrice == InitPrice /\ [][NextPrice]_vars

Priced == pc = "price" /\ label # NotRun

\* the currency-shaped numbers of the page text, in text order
EurosOf(page) == RE_EUR_ANY_finditer(page.page_text, 1)

\* the first currency-shaped number worth 10,000 or more (0: none)
FirstLarge(euros) ==
    IF \E i \in 1..Len(euros) :
           TokenValue(euros[i]) # NoNumber /\ NumGE(TokenValue(euros[i]), Float(MinTopPrice))
    THEN CHOOSE i \in 1..Len(euros) :
             /\ TokenValue(euros[i]) # NoNumber
             /\ NumGE(TokenValue(euros[i]), Float(MinTopPrice))
             /\ \A j \in 1..(i - 1) :
                   \/ TokenValue(euros[j]) = NoNumber
                   \/ ~NumGE(TokenValue(euros[j]), Float(MinTopPrice))
    ELSE 0

\* C16: extract_price returns the price of the JSON-LD data when there is
\* one; else that of the DOM keyword scan; else the first currency-shaped
\* number of the text worth 10,000 or more; else a currency-shaped number of
\* the text that no other exceeds; and the empty text only when the text has
\* no currency-shaped number either.
C16_FirstStrategyWithPriceWins ==
    Priced =>
        LET ld    == extract_price_from_jsonld(main_soup.jsonld)
            dom   == extract_price_dom(main_soup)
            euros == EurosOf(main_soup)
        IN  IF ld # <<>> THEN label = ld
            ELSE IF dom # <<>> THEN label = dom
            ELSE IF FirstLarge(euros) # 0
            THEN label = clean_price_string(euros[FirstLarge(euros)])
            ELSE IF euros # <<>>
            THEN \E i \in 1..Len(euros) :
                    /\ label = clean_price_string(euros[i])
                    /\ \A j \in 1..Len(euros) : NumGE(ToFloat(euros[i]), ToFloat(euros[j]))
            ELSE label = <<>>

\* a page where the JSON-LD data, the DOM scan and the text each have a
\* price of their own, and the text has a later number larger than its first
\* one of 10,000 or more
C16_Witness ==
    /\ Priced
    /\ extract_price_from_jsonld(main_soup.jsonld) # <<>>
    /\ extract_price_dom(main_soup) # <<>>
    /\ extract_price_dom(main_soup) # extract_price_from_jsonld(main_soup.jsonld)
    /\ FirstLarge(EurosOf(main_soup)) # 0
    /\ \E j \in 1..Len(EurosOf(main_soup)) :
          ~NumGE(ToFloat(EurosOf(main_soup)[FirstLarge(EurosOf(main_soup))]),
                 ToFloat(EurosOf(main_soup)[j]))

(***************************************************************************)
(* One operation per natural key                                           *)
(***************************************************************************)
\* the natural key of the listed record with the id
KeyOfId(id) == unique_key(listed[CHOOSE i \in 1..Len(listed) : listed[i].id = id].fields)

UpdatedKeys == {KeyOfId(Sent("update")[i].id) : i \in 1..Len(Sent("update"))}

DeletedKeys == {KeyOfId(Sent("delete")[i]) : i \in 1..Len(Sent("delete"))}

Distinct(q) == \A i, j \in 1..Len(q) : q[i] = q[j] => i = j

\* C19: in one call of sync_category the creates sent are for distinct keys
\* the table does not have, each built from the last row of its key; the
\* updates sent name distinct records, each the copy of a scraped key and
\* carrying values of the last row of that key; the deletes sent name
\* distinct records whose keys no scraped row has; so no key has two
\* operations and no record id is both updated and deleted.
C19_OneOperationPerKey ==
    LET creates == Sent("create")
        updates == Sent("update")
        deletes == Sent("delete")
    IN  /\ \E key \in [1..Len(creates) -> D \ E] :
              /\ \A i, j \in 1..Len(creates) : key[i] = key[j] => i = j
              /\ \A i \in 1..Len(creates) : creates[i] = DesiredFor(key[i])
        /\ Distinct([i \in 1..Len(updates) |-> updates[i].id])
        /\ \A i \in 1..Len(updates) :
              \E k \in D \cap E :
                  /\ updates[i].id = RemoteFor(k).id
                  /\ updates[i].fields = Restrict(DesiredFor(k), DOMAIN updates[i].fields)
        /\ Distinct(deletes)
        /\ \A i \in 1..Len(deletes) : \E k \in E \ D : deletes[i] = RemoteFor(k).id
        /\ \A i \in 1..Len(updates), j \in 1..Len(deletes) : updates[i].id # deletes[j]
        /\ UpdatedKeys \cap DeletedKeys = {}
        /\ (D \ E) \cap (UpdatedKeys \cup DeletedKeys) = {}

\* two scraped rows of one key whose remote copy is updated once, and a
\* remote record of another key deleted
C19_Witness ==
    /\ pc = "synced"
    /\ Cardinality(RowsInCategory) = 2
    /\ Cardinality(D) = 1
    /\ Len(Sent("update")) = 1
    /\ Len(Sent("delete")) = 1

(***************************************************************************)
(* sync_category called twice with the same rows and the same category     *)
(***************************************************************************)
InitResync ==
    /\ pc = "dispatch"
    /\ mode = "auto" /\ configured = TRUE
    /\ store \in Stores
    /\ nextId = Len(store) + 1
    /\ \E rows \in RowLists, lbl \in {Kaufen, Mieten} :
          pending = <<SyncCall(rows, lbl), SyncCall(rows, lbl)>>
    /\ site = <<>> /\ idx = 0 /\ seen = {} /\ new_links = <<>> /\ row = NoRow
    /\ all_rows = <<>> /\ skipped = <<>> /\ cache = EmptyDict
    /\ csv = NoCsv
    /\ openai = FALSE /\ log = <<>>
    /\ scraped_rows = <<>> /\ category_label = <<>>
    /\ allowed = {} /\ listed = <<>>
    /\ to_create = <<>> /\ to_update = <<>> /\ to_delete_ids = <<>>
    /\ bi = 0 /\ calls = <<>>
    /\ PriceIdle
    /\ KeyIdle
    /\ TextIdle

NextResync == Dispatch \/ NextSync

SpecResync == InitResync /\ [][NextResync]_vars

\* the positions in calls of the schema probes: one for each call of
\* sync_category begun
Probes == {i \in 1..Len(calls) : calls[i].op = "probe"}

InSecondSync == Cardinality(Probes) = 2

\* the HTTP calls of the second call of sync_category
SecondSyncCalls == SubSeq(calls, Last(Probes), Len(calls))

\* C20: after a call of sync_category that returned, a second call with the
\* same rows and the same category sends no create, no update and no delete,
\* whatever the schema probe answers in either call.
C20_SecondSyncSendsNothing ==
    InSecondSync =>
        \A i \in 1..Len(SecondSyncCalls) :
            SecondSyncCalls[i].op \notin {"create", "update", "delete"}

(***************************************************************************)
(* The fields sync_category writes                                         *)
(***************************************************************************)
\* a Preis that is None or ""
EmptyPreis(fields) ==
    "Preis" \in DOMAIN fields /\ fields["Preis"] \in {PyNone, PyStr(<<>>)}

\* the field names of a row that may be sent when nothing is filtered
Sendable(r) == DOMAIN r \ (IF EmptyPreis(r) THEN {"Preis"} ELSE {})

\* the last scraped row of a key of D
LastRow(k) == scraped_rows[Last({i \in RowsInCategory : unique_key(scraped_rows[i]) = k})]

\* every payload sent so far: the creates and the diffs of the updates
PayloadsSent ==
    Sent("create") \o [i \in 1..Len(Sent("update")) |-> Sent("update")[i].fields]

\* C21: when the schema probe gave a non-empty set, every field name of every
\* create and of every update diff sent is in that set or is Kurzbeschreibung;
\* when it gave the empty set, a create carries every field of its row and an
\* update every field of its row that differs from the remote copy, an empty
\* Preis left out; and no payload ever carries a Preis that is None or "".
C21_OnlyProbedFieldsAreWritten ==
    /\ \A i \in 1..Len(PayloadsSent) : ~EmptyPreis(PayloadsSent[i])
    /\ allowed # {} =>
          \A i \in 1..Len(PayloadsSent) :
              DOMAIN PayloadsSent[i] \subseteq allowed \cup {"Kurzbeschreibung"}
    /\ allowed = {} =>
          /\ \A i \in 1..Len(Sent("create")) :
                \E k \in D \ E :
                    /\ DOMAIN Sent("create")[i] = Sendable(LastRow(k))
                    /\ \A f \in Sendable(LastRow(k)) : Sent("create")[i][f] = LastRow(k)[f]
          /\ \A i \in 1..Len(Sent("update")) :
                \E k \in D \cap E :
                    /\ Sent("update")[i].id = RemoteFor(k).id
                    /\ DOMAIN Sent("update")[i].fields =
                          {f \in Sendable(LastRow(k)) :
                              Get(RemoteFor(k).fields, f) # LastRow(k)[f]}

\* the probe gave a set without Webseite, and both a create and an update
\* were sent for rows that have a Webseite and a Preis
C21_Witness ==
    /\ pc = "synced"
    /\ allowed # {}
    /\ "Webseite" \notin allowed
    /\ Sent("create") # <<>>
    /\ Sent("update") # <<>>
    /\ \A i \in RowsInCategory : ~EmptyPreis(scraped_rows[i])

(***************************************************************************)
(* The loop of run over the list pages, on sites with more pages than the  *)
(* loop reads                                                              *)
(***************************************************************************)
\* a site that answers every page number with the same listing
EndlessSite == [i \in 1..(MaxPages + 1) |-> <<PageHouse>>]

\* a page seen before between two pages, and an empty page between two pages
PagingSites ==
    ScrapeSites \cup
        { EndlessSite,
          <<<<PageHouse>>, <<PageHouse>>, <<PageFlat, PageSold>>>>,
          <<<<PageHouse>>, <<>>, <<PageFlat>>>> }

InitPaging ==
    /\ pc = "start"
    /\ mode = "auto" /\ configured \in BOOLEAN /\ openai = FALSE
    /\ site \in PagingSites
    /\ store = <<>>
    /\ nextId = 1
    /\ idx = 0 /\ seen = {} /\ new_links = <<>> /\ row = NoRow
    /\ all_rows = <<>> /\ skipped = <<>> /\ cache = EmptyDict
    /\ pending = <<>> /\ csv = NoCsv /\ log = <<>>
    /\ scraped_rows = <<>> /\ category_label = <<>>
    /\ allowed = {} /\ listed = <<>>
    /\ to_create = <<>> /\ to_update = <<>> /\ to_delete_ids = <<>>
    /\ bi = 0 /\ calls = <<>>
    /\ PriceIdle
    /\ KeyIdle
    /\ TextIdle

\* lines 1042-1082 of run
NextPaging == LoadCache \/ CollectDetailLinks \/ ParseDetail \/ BuildRecord

\* run is one sequential program: a step that can be taken is taken
SpecPaging == InitPaging /\ [][NextPaging]_vars /\ WF_vars(NextPaging)

\* the links of list page n (none for a page the site does not have)
LinksOfPage(n) == IF n <= Len(site) THEN site[n] ELSE <<>>

\* a step of the loop that fetches list page idx
FetchesPage == pc = "scrape" /\ idx <= MaxPages

\* the fetch of this step raised
FetchFailed == log' = Append(log, Line("WARN", idx, <<>>))

\* a step that calls parse_detail
CallsParseDetail == pc = "detail" /\ (pc' # pc \/ new_links' # new_links \/ row' # row)

NoOutcomeYet(url) == ~HasRecord(url) /\ ~HasFailed(url) /\ ~WasSkipped(url)

\* C22: the loop of run over the list pages ends; it fetches list pages 1, 2,
\* ... in that order, each once and none beyond page 50; it is left at the
\* first page that fails to load or has no link, and goes on to the next
\* page after one whose links were all seen; and parse_detail is called only
\* for a url that has not been handled before in the run.
C22_ScrapeLoopEndsNoListingTwice ==
    /\ <>ScrapeOver
    /\ [](pc = "scrape" => idx \in 1..(MaxPages + 1))
    /\ [](\A i, j \in 1..Len(new_links) : new_links[i].url = new_links[j].url => i = j)
    /\ [][ /\ (pc = "scrape" /\ ~FetchesPage) =>
                (pc' = "split" /\ seen' = seen /\ new_links' = new_links)
           /\ (pc' = "scrape" /\ pc # "start") => idx' = idx + 1
           /\ pc' # "scrape" => idx' = idx
           /\ (FetchesPage /\ (FetchFailed \/ LinksOfPage(idx) = <<>>)) =>
                (pc' = "split" /\ seen' = seen /\ new_links' = new_links)
           /\ (FetchesPage /\ ~FetchFailed /\ LinksOfPage(idx) # <<>>) =>
                /\ seen' = seen \cup Urls(LinksOfPage(idx))
                /\ Urls(new_links') = Urls(LinksOfPage(idx)) \ seen
                /\ pc' = IF Urls(LinksOfPage(idx)) \subseteq seen THEN "scrape" ELSE "detail"
           /\ CallsParseDetail =>
                /\ NoOutcomeYet(Head(new_links).url)
                /\ Head(new_links).url \in seen
                /\ seen' = seen
         ]_vars

\* the loop was left after list page 50 of a site that has a page 51, with
\* the one listing of the site recorded once
C22_Witness ==
    /\ pc = "split"
    /\ idx = MaxPages + 1
    /\ Len(site) > MaxPages
    /\ Len(all_rows) = 1
    /\ seen = {Url1}

=============================================================================
